---- MODULE Spec2Model ----
(***************************************************************************)
(* A model of the EDHREC extraction engine of Mightstone-GPT:              *)
(*   - _request_average_deck   (services/edhrec_complete.py), the fetcher  *)
(*     with its retry loop, as a state machine, one step per attempt;      *)
(*   - deep_find_cards, _normalize_card_entry and the merge of             *)
(*     fetch_average_deck (services/edhrec_complete.py), as operators      *)
(*     applied by the steps of the extraction pipeline;                    *)
(*   - EDHRECService._normalize_bracket (services/edhrec_service.py).      *)
(* Text is a sequence of one-character strings, so that strip(), lower(),  *)
(* replace() and the quantity-prefix pattern are computed character by     *)
(* character.  JSON values are tagged tuples.                              *)
(***************************************************************************)
EXTENDS Integers, Sequences, FiniteSets, TLC

VARIABLES
    \* _request_average_deck
    pc,          \* "request" while the retry loop runs, "done" after return/raise
    attempt,     \* the loop variable of `for attempt in range(RETRY_ATTEMPTS + 1)`
    last_exc,    \* the local last_exc
    responses,   \* what each session.get() so far produced, in order
    sleeps,      \* the time.sleep() calls so far, in milliseconds, in order
    outcome,     \* how the call ended: a returned body or a raised exception
    \* fetch_average_deck, from the card list on
    cards,       \* the raw entries handed to the normalisation loop
    normalized,  \* the list `normalized`
    combined,    \* the OrderedDict `combined`, as its values in insertion order
    deck_pc,     \* "cards", "normalized", "merged", "built"
    result,      \* the dict `result`: its commander_card and its deck.cards
    \* deep_find_cards
    obj,         \* the payload searched
    seen_lists,  \* the arrays recorded, each by its place in the payload
    found,       \* the value returned
    find_pc,     \* "call", "returned"
    \* EDHRECService._normalize_bracket
    bracket,     \* the argument
    norm_bracket,\* the value returned
    bracket_pc,  \* "call", "returned"
    \* EDHRECService.get_average_deck, up to the fetch of the deck page
    commander_page,\* what _find_commander_page finds: no page, or the links of its html
    req_bracket, \* the argument bracket
    deck_info,   \* the dict returned by _find_average_deck_url
    deck_fetches,\* the deck pages fetched, in order
    disc_outcome,\* how get_average_deck went on: an error raised, or the page fetched
    disc_pc,     \* "find_page", "find_url", "fetch", "done"
    \* utils/edhrec_commander.py: one call of one of its functions
    tag_call,    \* the function called and its argument
    tag_ret,     \* what the call returned, or the exception it raised
    tag_pc,      \* "call", "returned"
    \* the payload locators: one call of _find_next_data or of _parse_average_deck
    loc_call,    \* the function called, the html and the url or commander name
    loc_ret,     \* the payload returned, or the exception raised
    loc_pc,      \* "call", "returned"
    \* fetch_commander_summary and fetch_average_deck: one call, and the session it uses
    fetch_call,  \* the function called and its arguments
    own_session, \* the local own_session
    session_gets,\* how many requests the session has sent
    session_closes,\* how often close() was called on the session
    fetch_html,  \* the local html: <<>> before the page is fetched
    fetch_locals, \* fetch_commander_summary: payload, tags_from_payload, tags_from_html, json_tag_names and html_tag_names, as far as assigned
    fetch_ret,   \* what the call returned, or the exception it raised
    fetch_pc,    \* where the call stands: "call" ... "finally", "done"
    \* deep_find_cards on objects that may be shared or hold themselves
    heap,        \* the lists and dicts of the argument, each under its identity
    stack,       \* the calls of walk in progress: the node and the child reached
    seen_ids,    \* the set seen_ids
    seen_refs,   \* the list seen_lists, as the identities of its arrays
    flattened,   \* the value returned, or the exception raised
    walk_pc,     \* "walking", "returned", "raised"
    \* EDHRECService._fetch_html
    html_attempt,\* the loop variable of `for attempt in range(max_retries)`
    html_events, \* the requests sent, each with how it ended, and the sleeps, in order
    html_outcome,\* how the call ended: the text returned, or the exception raised
    html_pc,     \* "get" while the loop runs, "done" after return or raise
    \* EDHRECService._parse_average_deck
    parse_html,  \* the deck page: what the __NEXT_DATA__ pattern captures, if it matches
    parse_ret,   \* the DeckData returned, or the exception raised
    parse_pc,    \* "called" before the parse, "returned" after
    \* EDHRECService: initialize, cleanup and the public operations
    _initialized,\* self._initialized
    client,      \* self.client: "None", or a client "open" or "closed"
    http_requests,\* the HTTP requests issued so far
    lifecycle_ret,\* the last call of initialize or cleanup and how it ended
    in_service,  \* the last completed call among initialize and cleanup is an initialize
    svc_call,    \* the operation invoked, with in_service and http_requests at that time
    svc_left,    \* get_budget_comparison: the calls of get_average_deck still to make
    svc_sent,    \* the operation running has asked the client for a page
    svc_ret,     \* how the operation ended
    svc_pc       \* "enter" at a nested call, "body" inside an operation, "returned" after

requestVars == <<pc, attempt, last_exc, responses, sleeps, outcome>>
deckVars    == <<cards, normalized, combined, deck_pc, result>>
findVars    == <<obj, seen_lists, found, find_pc>>
bracketVars == <<bracket, norm_bracket, bracket_pc>>
discVars == <<commander_page, req_bracket, deck_info, deck_fetches, disc_outcome, disc_pc>>
tagVars == <<tag_call, tag_ret, tag_pc>>
locVars == <<loc_call, loc_ret, loc_pc>>
fetchVars == <<fetch_call, own_session, session_gets, session_closes, fetch_html, fetch_locals, fetch_ret, fetch_pc>>
walkVars == <<heap, stack, seen_ids, seen_refs, flattened, walk_pc>>
htmlVars == <<html_attempt, html_events, html_outcome, html_pc>>
parseVars == <<parse_html, parse_ret, parse_pc>>
svcVars == <<_initialized, client, http_requests, lifecycle_ret, in_service, svc_call, svc_left, svc_sent, svc_ret, svc_pc>>
vars == <<requestVars, deckVars, findVars, bracketVars, discVars, tagVars, locVars, fetchVars, walkVars, htmlVars, parseVars, svcVars>>

(***************************************************************************)
(* Text                                                                    *)
(***************************************************************************)
UpperCase == <<"A","B","C","D","E","F","G","H","I","J","K","L","M",
               "N","O","P","Q","R","S","T","U","V","W","X","Y","Z">>
LowerCase == <<"a","b","c","d","e","f","g","h","i","j","k","l","m",
               "n","o","p","q","r","s","t","u","v","w","x","y","z">>
Digits == {"0","1","2","3","4","5","6","7","8","9"}
Whitespace == {" ", "\t", "\n"}

Range(s) == {s[i] : i \in DOMAIN s}

IsDigit(c) == c \in Digits
IsSpace(c) == c \in Whitespace
IsAlpha(c) == c \in Range(UpperCase) \cup Range(LowerCase)

\* str.lower(), one character
LowerChar(c) ==
    IF c \in Range(UpperCase)
    THEN LowerCase[CHOOSE i \in DOMAIN UpperCase : UpperCase[i] = c]
    ELSE c

\* str.lower()
Lower(s) == [i \in DOMAIN s |-> LowerChar(s[i])]

\* str.strip()
Strip(s) ==
    LET keep == {i \in DOMAIN s : ~IsSpace(s[i])}
    IN  IF keep = {} THEN <<>>
        ELSE LET lo == CHOOSE i \in keep : \A j \in keep : i <= j
                 hi == CHOOSE i \in keep : \A j \in keep : j <= i
             IN  SubSeq(s, lo, hi)

\* re.match(r'^\d+\s+[A-Za-z]', s): one or more digits, one or more
\* whitespace characters, then a letter, from the start of s
MatchesQuantityPrefix(s) ==
    \E i \in 1..Len(s) : \E j \in (i + 1)..Len(s) :
        /\ j < Len(s)
        /\ \A k \in 1..i : IsDigit(s[k])
        /\ \A k \in (i + 1)..j : IsSpace(s[k])
        /\ IsAlpha(s[j + 1])

(***************************************************************************)
(* _request_average_deck                                                   *)
(***************************************************************************)
RETRY_ATTEMPTS == 2

None == [type |-> "None"]
EdhrecTimeoutError  == [type |-> "EdhrecTimeoutError"]
EdhrecNetworkError  == [type |-> "EdhrecError: Network error"]
EdhrecUnexpected    == [type |-> "EdhrecError: Unexpected response"]
EdhrecNotFoundError == [type |-> "EdhrecNotFoundError"]
AssertionError      == [type |-> "AssertionError"]

\* the statuses a final response of session.get() may carry
Statuses == {100, 200, 204, 301, 304, 400, 403, 404, 429, 500, 503}
Bodies == {"<html>A</html>", "<html>B</html>"}

\* what one session.get() produces: requests.Timeout, another
\* requests.RequestException, or a response
Timeout == [kind |-> "Timeout", status |-> 0, text |-> ""]
RequestException == [kind |-> "RequestException", status |-> 0, text |-> ""]
Response(status, text) == [kind |-> "response", status |-> status, text |-> text]

Running == [kind |-> "running", exc |-> None, text |-> ""]
Returned(text) == [kind |-> "return", exc |-> None, text |-> text]
Raised(exc) == [kind |-> "raise", exc |-> exc, text |-> ""]

\* a fetcher that sends a 404 down the path of the other HTTP errors
IsNotFound_AsHttpError(status) == FALSE

\* response.status_code == 404
IsNotFound(status) == status = 404

\* a fetcher whose 5xx branch forgets the bound on attempt
RetriesServerError_Unbounded(status, att) == status >= 500

\* response.status_code >= 500 and attempt < RETRY_ATTEMPTS
RetriesServerError(status, att) == status >= 500 /\ att < RETRY_ATTEMPTS

\* response.raise_for_status() raises requests.HTTPError
raise_for_status(status) == 400 <= status /\ status < 600

\* a fetcher whose 5xx backoff does not grow with the attempt
ServerErrorDelay_Flat(att) == 300

\* time.sleep(0.3 * (attempt + 1)), in milliseconds
ServerErrorDelay(att) == 300 * (att + 1)

\* time.sleep(0.2 * (attempt + 1)), in milliseconds
FailureDelay(att) == 200 * (att + 1)

\* the end of the loop body: the next iteration, or, the range exhausted,
\* `assert last_exc is not None; raise last_exc`
NextIteration(exc) ==
    IF attempt + 1 <= RETRY_ATTEMPTS
    THEN /\ pc' = "request"
         /\ attempt' = attempt + 1
         /\ outcome' = outcome
    ELSE /\ pc' = "done"
         /\ attempt' = attempt
         /\ outcome' = IF exc = None THEN Raised(AssertionError) ELSE Raised(exc)

\* an iteration that recorded exc in last_exc and fell through to
\* time.sleep(0.2 * (attempt + 1))
Failed(exc) ==
    /\ last_exc' = exc
    /\ sleeps' = Append(sleeps, FailureDelay(attempt))
    /\ NextIteration(exc)

GetTimeout ==
    /\ pc = "request"
    /\ responses' = Append(responses, Timeout)
    /\ Failed(EdhrecTimeoutError)
    /\ UNCHANGED <<deckVars, findVars, bracketVars, discVars, tagVars, locVars, fetchVars, walkVars, htmlVars, parseVars, svcVars>>

GetRequestException ==
    /\ pc = "request"
    /\ responses' = Append(responses, RequestException)
    /\ Failed(EdhrecNetworkError)
    /\ UNCHANGED <<deckVars, findVars, bracketVars, discVars, tagVars, locVars, fetchVars, walkVars, htmlVars, parseVars, svcVars>>

GetResponse ==
    /\ pc = "request"
    /\ \E status \in Statuses, text \in Bodies :
        /\ responses' = Append(responses, Response(status, text))
        /\ IF IsNotFound(status)
           THEN /\ pc' = "done"
                /\ outcome' = Raised(EdhrecNotFoundError)
                /\ UNCHANGED <<attempt, last_exc, sleeps>>
           ELSE IF RetriesServerError(status, attempt)
           THEN /\ sleeps' = Append(sleeps, ServerErrorDelay(attempt))
                /\ last_exc' = last_exc
                /\ NextIteration(last_exc)
           ELSE IF raise_for_status(status)
           THEN Failed(EdhrecUnexpected)
           ELSE /\ pc' = "done"
                /\ outcome' = Returned(text)
                /\ UNCHANGED <<attempt, last_exc, sleeps>>
    /\ UNCHANGED <<deckVars, findVars, bracketVars, discVars, tagVars, locVars, fetchVars, walkVars, htmlVars, parseVars, svcVars>>

RequestInit ==
    /\ pc = "request"
    /\ attempt = 0
    /\ last_exc = None
    /\ responses = <<>>
    /\ sleeps = <<>>
    /\ outcome = Running

RequestIdle ==
    /\ pc = "idle"
    /\ attempt = 0
    /\ last_exc = None
    /\ responses = <<>>
    /\ sleeps = <<>>
    /\ outcome = Running

DeckIdle == cards = <<>> /\ normalized = <<>> /\ combined = <<>> /\ deck_pc = "idle" /\ result = <<>>
FindIdle == obj = <<"null">> /\ seen_lists = <<>> /\ found = <<"null">> /\ find_pc = "idle"
BracketIdle == bracket = <<>> /\ norm_bracket = <<>> /\ bracket_pc = "idle"
TagIdle == tag_call = <<"none">> /\ tag_ret = <<"none">> /\ tag_pc = "idle"
DiscIdle == commander_page = <<>> /\ req_bracket = <<>> /\ deck_info = [url |-> <<>>, available |-> {}] /\ deck_fetches = <<>> /\ disc_outcome = "none" /\ disc_pc = "idle"
FetchIdle == fetch_call = <<"none">> /\ own_session = FALSE /\ session_gets = 0 /\ session_closes = 0 /\ fetch_html = <<>> /\ fetch_locals = <<>> /\ fetch_ret = <<"none">> /\ fetch_pc = "idle"
LocIdle == loc_call = <<"none">> /\ loc_ret = <<"none">> /\ loc_pc = "idle"
HtmlIdle == html_attempt = 0 /\ html_events = <<>> /\ html_outcome = <<"none">> /\ html_pc = "idle"
WalkIdle == heap = <<>> /\ stack = <<>> /\ seen_ids = {} /\ seen_refs = <<>> /\ flattened = <<"none">> /\ walk_pc = "idle"
ServiceIdle == _initialized = FALSE /\ client = "None" /\ http_requests = 0 /\ lifecycle_ret = <<"none">> /\ in_service = FALSE /\ svc_call = <<"none">> /\ svc_left = 0 /\ svc_sent = FALSE /\ svc_ret = <<"none">> /\ svc_pc = "idle"
ParseIdle == parse_html = <<>> /\ parse_ret = <<"none">> /\ parse_pc = "idle"

InitRequest == RequestInit /\ DeckIdle /\ FindIdle /\ BracketIdle /\ DiscIdle /\ TagIdle /\ LocIdle /\ FetchIdle /\ WalkIdle /\ HtmlIdle /\ ParseIdle /\ ServiceIdle
NextRequest == GetTimeout \/ GetRequestException \/ GetResponse
SpecRequest == InitRequest /\ [][NextRequest]_vars

(***************************************************************************)
(* Properties of _request_average_deck (checked under SpecRequest)         *)
(***************************************************************************)
IsStatus(r, lo, hi) == r.kind = "response" /\ lo <= r.status /\ r.status <= hi
Is2xx(r) == IsStatus(r, 200, 299)
Is5xx(r) == IsStatus(r, 500, 599)
Is404(r) == IsStatus(r, 404, 404)
LastResponse == responses[Len(responses)]
EdhrecErrors ==
    {EdhrecTimeoutError, EdhrecNetworkError, EdhrecUnexpected, EdhrecNotFoundError}

\* C5: when the first k responses (k = 1 or 2) are 5xx and the next one is
\* 2xx, the call has returned that body with request k+1, and the waits were
\* 300 ms, 600 ms, ...: n times 300 ms before the n-th retry.
C5_ServerErrorsThenSuccess ==
    \A k \in 1..2 :
        ( /\ Len(responses) >= k + 1
          /\ \A i \in 1..k : Is5xx(responses[i])
          /\ Is2xx(responses[k + 1]) )
        => /\ pc = "done"
           /\ Len(responses) = k + 1
           /\ outcome = Returned(responses[k + 1].text)
           /\ sleeps = [n \in 1..k |-> n * 300]

\* 503, 503, 200: returned on the third attempt after 300 + 600 ms
C5_Witness ==
    /\ Len(responses) = 3
    /\ responses[1].status = 503 /\ responses[2].status = 503
    /\ responses[3].status = 200
    /\ pc = "done" /\ outcome.kind = "return"
    /\ sleeps = <<300, 600>>

\* C6: a 404 response is the last thing the call does: it is the last
\* request, the call has raised EdhrecNotFoundError, and no wait follows it
\* (the only waits are the one after each earlier attempt).
C6_NotFoundIsImmediate ==
    \A i \in DOMAIN responses :
        Is404(responses[i])
        => /\ i = Len(responses)
           /\ pc = "done"
           /\ outcome = Raised(EdhrecNotFoundError)
           /\ Len(sleeps) = i - 1

\* a timeout, a 503, then the 404
C6_Witness ==
    /\ Len(responses) = 3
    /\ responses[1] = Timeout
    /\ Is5xx(responses[2])
    /\ Is404(responses[3])
    /\ pc = "done" /\ outcome = Raised(EdhrecNotFoundError)
    /\ Len(sleeps) = 2

\* C7: a response whose status is neither 2xx, nor 404, nor 5xx ends the
\* call with the unexpected-status error: no request follows it.
C7_OnlyTransportAnd5xxRetried ==
    \A i \in DOMAIN responses :
        ( /\ responses[i].kind = "response"
          /\ ~Is2xx(responses[i]) /\ ~Is404(responses[i]) /\ ~Is5xx(responses[i]) )
        => /\ i = Len(responses)
           /\ pc = "done"
           /\ outcome = Raised(EdhrecUnexpected)

\* C8: a body is returned only from a 2xx response, and is that response's
\* text; a call that ended on a response with another status has raised.
C8_BodyOnlyFrom2xx ==
    pc = "done" =>
        /\ outcome.kind = "return"
            => Is2xx(LastResponse) /\ outcome.text = LastResponse.text
        /\ (LastResponse.kind = "response" /\ ~Is2xx(LastResponse))
            => outcome.kind = "raise"

\* C9: the call makes at most RETRY_ATTEMPTS + 1 requests, can always take
\* its next step while it runs (each step is one more request), and ends by
\* returning a body or raising an EdhrecError, never by the failed assertion.
C9_RequestTerminates ==
    /\ pc \in {"request", "done"}
    /\ Len(responses) <= RETRY_ATTEMPTS + 1
    /\ pc = "request" =>
        /\ attempt = Len(responses)
        /\ attempt <= RETRY_ATTEMPTS
        /\ ENABLED (GetTimeout \/ GetRequestException \/ GetResponse)
    /\ pc = "done" =>
        \/ outcome.kind = "return"
        \/ outcome.kind = "raise" /\ outcome.exc \in EdhrecErrors

\* three 5xx responses: the first two iterations `continue` without setting
\* last_exc, the third sets it and the call raises it
C9_Witness ==
    /\ Len(responses) = 3
    /\ \A i \in 1..3 : Is5xx(responses[i])
    /\ pc = "done"
    /\ outcome = Raised(EdhrecUnexpected)
    /\ sleeps = <<300, 600, 600>>

(***************************************************************************)
(* EDHRECService._normalize_bracket                                        *)
(***************************************************************************)
T_precon     == <<"p","r","e","c","o","n">>
T_exhibition == <<"e","x","h","i","b","i","t","i","o","n">>
T_average    == <<"a","v","e","r","a","g","e">>
T_all        == <<"a","l","l">>
T_default    == <<"d","e","f","a","u","l","t">>
T_core       == <<"c","o","r","e">>
T_upgraded   == <<"u","p","g","r","a","d","e","d">>
T_optimized  == <<"o","p","t","i","m","i","z","e","d">>
T_cedh       == <<"c","e","d","h">>
T_budget     == <<"b","u","d","g","e","t">>

\* the dict bracket_map, as its (key, value) pairs
bracket_map ==
    << <<T_precon, T_exhibition>>,
       <<T_average, <<>>>>,
       <<T_all, <<>>>>,
       <<T_default, <<>>>>,
       << <<"1">>, T_exhibition>>,
       << <<"2">>, T_core>>,
       << <<"3">>, T_upgraded>>,
       << <<"4">>, T_optimized>>,
       << <<"5">>, T_cedh>> >>

\* str.replace(old, new) for one-character old and new
Replace(s, old, new) == [i \in DOMAIN s |-> IF s[i] = old THEN new ELSE s[i]]

\* dict.get(key, default) on a dict given by its pairs
MapGet(map, key, default) ==
    IF \E i \in DOMAIN map : map[i][1] = key
    THEN map[CHOOSE i \in DOMAIN map : map[i][1] = key][2]
    ELSE default

\* a normalisation that looks the argument up as it was typed
_normalize_bracket_CaseSensitive(b) ==
    LET token == Replace(b, "-", "/")
    IN  MapGet(bracket_map, token, Lower(token))

_normalize_bracket(b) ==
    LET token == Replace(Lower(b), "-", "/")    \* the local `normalized`
    IN  MapGet(bracket_map, token, token)

MaxBracketLen == 2
BracketAlphabet == {"1", "3", "5", "7", "a", "A", "-", "/", " "}

\* every text of at most n characters of BracketAlphabet
RECURSIVE Texts(_)
Texts(n) ==
    IF n = 0 THEN {<<>>}
    ELSE LET shorter == Texts(n - 1)
         IN  shorter \cup {Append(t, c) : t \in shorter, c \in BracketAlphabet}

\* the documented tokens and aliases, in several spellings
BracketWords ==
    { T_precon, T_exhibition, T_average, T_all, T_default,
      T_core, T_upgraded, T_optimized, T_cedh, T_budget,
      <<"P","r","e","c","o","n">>, <<"P","R","E","C","O","N">>,
      <<"A","l","l">>, <<"C","o","r","e">>, <<"c","E","D","H">>,
      <<"A","v","e","r","a","g","e">>, <<"D","E","F","A","U","L","T">>,
      T_upgraded \o <<"-">> \o T_budget,
      T_upgraded \o <<"/">> \o T_budget,
      <<"C","o","r","e">> \o <<"-">> \o <<"B","u","d","g","e","t">>,
      T_precon \o <<"-">> \o T_budget,
      <<" ">> \o T_precon, T_precon \o <<"-">>,
      <<"2">>, <<"4">>, <<"6">>, <<"1","0">> }

\* the arguments tried: every text of at most n characters, and the words
BracketInputs(n) == Texts(n) \cup BracketWords

NormalizeBracket ==
    /\ bracket_pc = "call"
    /\ norm_bracket' = _normalize_bracket(bracket)
    /\ bracket_pc' = "returned"
    /\ UNCHANGED <<bracket, requestVars, deckVars, findVars, discVars, tagVars, locVars, fetchVars, walkVars, htmlVars, parseVars, svcVars>>

InitBracket ==
    /\ bracket \in BracketInputs(MaxBracketLen)
    /\ norm_bracket = <<>>
    /\ bracket_pc = "call"
    /\ RequestIdle /\ DeckIdle /\ FindIdle /\ DiscIdle /\ TagIdle /\ LocIdle /\ FetchIdle /\ WalkIdle /\ HtmlIdle /\ ParseIdle /\ ServiceIdle
NextBracket == NormalizeBracket
SpecBracket == InitBracket /\ [][NextBracket]_vars

(***************************************************************************)
(* Properties of _normalize_bracket (checked under SpecBracket)            *)
(***************************************************************************)
IsText(s) == DOMAIN s = 1..Len(s) /\ \A i \in DOMAIN s : s[i] \in STRING
EqualIgnoringCase(s, t) == Lower(s) = Lower(t)

JNull == <<"null">>
JStr(s) == <<"str", s>>
JInt(n) == <<"int", n>>
JFloat(tenths) == <<"float", tenths>>    \* the number tenths / 10
JBool(b) == <<"bool", b>>
JList(elems) == <<"list", elems>>
JDict(pairs) == <<"dict", pairs>>

\* isinstance(v, str), isinstance(v, dict), isinstance(v, list), ...
IsStr(v) == v[1] = "str"
IsDict(v) == v[1] = "dict"
IsList(v) == v[1] = "list"
IsBool(v) == v[1] = "bool"
IsInt(v) == v[1] = "int"
IsFloat(v) == v[1] = "float"

Keys(d) == {d[2][i][1] : i \in DOMAIN d[2]}

\* d.get(key): the value, or None
Get(d, key) ==
    IF key \in Keys(d)
    THEN d[2][CHOOSE i \in DOMAIN d[2] : d[2][i][1] = key][2]
    ELSE JNull

\* d.values(), in insertion order
Values(d) == [i \in DOMAIN d[2] |-> d[2][i][2]]

\* {**a, **b}: a's keys in place, with b's value where b has the key, then
\* the keys only b has
MergeDicts(a, b) ==
    LET kept == [i \in DOMAIN a[2] |->
                    IF a[2][i][1] \in Keys(b)
                    THEN <<a[2][i][1], Get(b, a[2][i][1])>>
                    ELSE a[2][i]]
        IsNew(pair) == pair[1] \notin Keys(a)
    IN  JDict(kept \o SelectSeq(b[2], IsNew))

\* sep.join(parts)
RECURSIVE Join(_, _)
Join(parts, sep) ==
    IF parts = <<>> THEN <<>>
    ELSE IF Len(parts) = 1 THEN parts[1]
    ELSE parts[1] \o sep \o Join(Tail(parts), sep)

\* the least element of a non-empty set of numbers
Min(S) == CHOOSE x \in S : \A y \in S : x <= y

(***************************************************************************)
(* _coerce_int, _normalize_card_entry and the merge of fetch_average_deck  *)
(***************************************************************************)
_NormalizedCard(name, qty, is_commander) ==
    [name |-> name, qty |-> qty, is_commander |-> is_commander]

\* str.isdigit() on a stripped string: non-empty, digits only
IsDigitText(s) == s # <<>> /\ \A i \in DOMAIN s : IsDigit(s[i])

\* int(s) for a text of digits
RECURSIVE ParseInt(_)
ParseInt(s) ==
    IF s = <<>> THEN 0
    ELSE 10 * ParseInt(SubSeq(s, 1, Len(s) - 1))
         + (CHOOSE d \in 0..9 : ToString(d) = s[Len(s)])

\* _coerce_int(value): <<n>>, or <<>> for None
_coerce_int(value) ==
    IF IsBool(value) THEN <<>>
    ELSE IF IsInt(value) THEN <<value[2]>>
    ELSE IF IsFloat(value)
    THEN <<IF value[2] >= 0 THEN value[2] \div 10 ELSE -((-value[2]) \div 10)>>
    ELSE IF IsStr(value) /\ IsDigitText(Strip(value[2]))
    THEN <<ParseInt(Strip(value[2]))>>
    ELSE <<>>

NameKeys == <<"name", "cardName", "card_name", "label", "title">>
CommanderFlags == <<"isCommander", "is_commander", "commander">>

\* the keys are asked in another order, quantity before qty
QtyKeys_QuantityFirst == <<"quantity", "qty", "count", "copies", "amount", "q">>

QtyKeys == <<"qty", "quantity", "count", "copies", "amount", "q">>

\* any string ends the search for the name, a blank one too
IsUsableName_AnyString(value) == IsStr(value)

\* a value under a name key that ends the search for the name:
\* isinstance(value, str) and value.strip()
IsUsableName(value) == IsStr(value) /\ Strip(value[2]) # <<>>

\* the names list path: the stripped non-blank strings of source["names"],
\* joined by " // "; <<>> when there is no such list or no such string
JoinedNames(source) ==
    IF IsList(Get(source, "names"))
    THEN LET Usable(v) == IsUsableName(v)
             kept == SelectSeq(Get(source, "names")[2], Usable)
         IN  Join([i \in DOMAIN kept |-> Strip(kept[i][2])], <<" ", "/", "/", " ">>)
    ELSE <<>>

\* the quantity and commander flag of an entry, once its name is known
CardOf(source, name) ==
    LET coerced == {i \in DOMAIN QtyKeys : _coerce_int(Get(source, QtyKeys[i])) # <<>>}
        qty == IF coerced = {} THEN 1
               ELSE _coerce_int(Get(source, QtyKeys[Min(coerced)]))[1]
        is_commander ==
            \E i \in DOMAIN CommanderFlags :
                /\ IsBool(Get(source, CommanderFlags[i]))
                /\ Get(source, CommanderFlags[i])[2]
    IN  _NormalizedCard(name, IF qty < 1 THEN 1 ELSE qty, is_commander)

\* _normalize_card_entry(entry): <<card>>, or <<>> for None
_normalize_card_entry(entry) ==
    IF IsStr(entry)
    THEN LET name == Strip(entry[2])
         IN  IF name = <<>> THEN <<>>
             ELSE IF MatchesQuantityPrefix(name) THEN <<>>
             ELSE <<_NormalizedCard(name, 1, FALSE)>>
    ELSE IF ~IsDict(entry) THEN <<>>
    ELSE LET source == IF IsDict(Get(entry, "card"))
                       THEN MergeDicts(entry, Get(entry, "card"))
                       ELSE entry
             usable == {i \in DOMAIN NameKeys : IsUsableName(Get(source, NameKeys[i]))}
         IN  IF usable # {}
             THEN LET name == Strip(Get(source, NameKeys[Min(usable)])[2])
                  IN  IF MatchesQuantityPrefix(name) THEN <<>>
                      ELSE <<CardOf(source, name)>>
             ELSE LET name == JoinedNames(source)
                  IN  IF name = <<>> THEN <<>>
                      ELSE <<CardOf(source, name)>>

\* the loop `for card in cards: ... normalized.append(normalized_card)`
RECURSIVE NormalizeAll(_)
NormalizeAll(entries) ==
    IF entries = <<>> THEN <<>>
    ELSE _normalize_card_entry(entries[1]) \o NormalizeAll(Tail(entries))

\* a merge keyed by the name as it is spelled
CardKey_CaseSensitive(card) == card.name

\* key = card.name.lower()
CardKey(card) == Lower(card.name)

\* one iteration of the loop over `normalized`; merged holds the values of
\* the OrderedDict `combined` in insertion order
MergeCard(merged, card) ==
    IF \E i \in DOMAIN merged : CardKey(merged[i]) = CardKey(card)
    THEN LET i == CHOOSE j \in DOMAIN merged : CardKey(merged[j]) = CardKey(card)
         IN  [merged EXCEPT ![i] =
                 _NormalizedCard(merged[i].name,
                                 merged[i].qty + card.qty,
                                 merged[i].is_commander \/ card.is_commander)]
    ELSE Append(merged, card)

RECURSIVE MergeAll(_, _)
MergeAll(merged, list) ==
    IF list = <<>> THEN merged
    ELSE MergeAll(MergeCard(merged, list[1]), Tail(list))

\* names and other texts of raw entries
N_Sol == <<"S","o","l">>
N_sol == <<"s","o","l">>
N_SOL == <<"S","O","L">>
N_Bo == <<"B","o">>
N_Prefixed == <<"1"," ","S","o","l">>       \* a quantity-prefixed annotation
N_Prefixed2 == <<"1","2"," "," ","b","o">>
N_Padded == <<" ","S","o","l"," ">>
N_PaddedPrefixed == <<" ","3","\t","B","o">>
N_Blank == <<" ">>
N_Count == <<"1","2">>                      \* digits only
N_Times == <<"2","x"," ","B","o">>          \* a digit, then a letter at once

EntryTexts == {<<>>, N_Blank, N_Sol, N_sol, N_Bo, N_Prefixed, N_Prefixed2,
               N_Padded, N_PaddedPrefixed, N_Count, N_Times}
NamesTexts == {<<>>, N_Sol, N_Bo, N_Prefixed, N_PaddedPrefixed}

Entry1(k, v) == JDict(<< <<k, v>> >>)
Entry2(k1, v1, k2, v2) == JDict(<< <<k1, v1>>, <<k2, v2>> >>)

\* the values given under the quantity keys, and the pairs of keys they are
\* given under (the second pair against the order of the search)
QtyValues ==
    { JInt(3), JInt(0), JInt(-2), JFloat(27), JFloat(-27), JFloat(5),
      JStr(<<"1","2">>), JStr(<<"0","0","7">>), JStr(<<" ","3"," ">>), JStr(<<"-","3">>), JStr(<<"2",".","5">>), JStr(<<>>),
      JBool(TRUE), JNull, JList(<<JInt(4)>>) }
QtyKeyPairs ==
    { <<"qty", "quantity">>, <<"q", "qty">>, <<"count", "copies">>, <<"amount", "q">> }

\* raw entries of every shape _normalize_card_entry tells apart
SingleEntries ==
    {JStr(t) : t \in EntryTexts}
    \cup {JNull, JInt(3), JBool(TRUE), JFloat(25), JList(<<JStr(N_Sol)>>), JDict(<<>>)}
    \cup {Entry1(k, JStr(t)) :
            k \in Range(NameKeys) \cup {"sortname"}, t \in EntryTexts}
    \cup {Entry2("name", v, "label", JStr(t)) :
            v \in {JStr(<<>>), JStr(N_Blank), JInt(5), JNull, JStr(N_Bo)}, t \in EntryTexts}
    \cup {Entry1("card", Entry1("name", JStr(t))) : t \in EntryTexts}
    \cup {Entry2("name", JStr(N_Sol), "card", Entry1("name", JStr(t))) : t \in EntryTexts}
    \cup {Entry2("title", JStr(t), "card", Entry1("qty", JInt(2))) : t \in EntryTexts}
    \cup {Entry1("names", JList(<<JStr(t1), JStr(t2)>>)) : t1, t2 \in NamesTexts}
    \cup {Entry1("names", JList(<<JStr(t)>>)) : t \in NamesTexts}
    \cup {Entry1("names", JList(<<JInt(1), JStr(t)>>)) : t \in NamesTexts}
    \cup {Entry2("name", v, "names", JList(<<JStr(t), JStr(N_Bo)>>)) :
            v \in {JStr(<<>>), JInt(5), JStr(N_Sol)}, t \in NamesTexts}
    \cup {Entry1("names", JStr(N_Sol)), Entry1("names", JList(<<>>))}
    \cup {JDict(<< <<"name", JStr(N_Sol)>>, <<kk[1], v1>>, <<kk[2], v2>> >>) :
            kk \in QtyKeyPairs, v1 \in QtyValues, v2 \in QtyValues}
    \cup {Entry2("qty", v, "card", Entry2("name", JStr(N_Bo), "qty", JStr(<<"x">>))) :
            v \in QtyValues}

\* entries that meet in the merge: one name in several spellings, with
\* quantities and commander flags, and entries that are dropped
MergeEntries ==
    { JStr(N_Sol),
      JStr(N_Padded),
      JStr(N_Prefixed),
      Entry2("name", JStr(N_sol), "qty", JInt(2)),
      Entry2("name", JStr(N_sol), "isCommander", JBool(TRUE)),
      JDict(<< <<"cardName", JStr(N_SOL)>>, <<"quantity", JStr(<<"3">>)>>,
               <<"commander", JBool(FALSE)>> >>),
      Entry2("card", Entry1("name", JStr(N_Bo)), "count", JInt(0)),
      Entry2("label", JStr(N_Bo), "is_commander", JBool(TRUE)),
      Entry1("names", JList(<<JStr(N_Sol), JStr(N_Bo)>>)),
      Entry1("names", JList(<<JStr(N_Prefixed), JStr(N_Bo)>>)),
      Entry2("label", JStr(N_Blank), "qty", JInt(2)) }

MaxCards == 3

\* the sequences of at most n elements of S
RECURSIVE SeqsUpTo(_, _)
SeqsUpTo(S, n) ==
    IF n = 0 THEN {<<>>}
    ELSE LET shorter == SeqsUpTo(S, n - 1)
         IN  shorter \cup {Append(q, e) : q \in shorter, e \in S}

\* the lists tried: every single entry, and the lists of at most n entries
\* that meet in the merge
CardLists(n) == {<<e>> : e \in SingleEntries} \cup SeqsUpTo(MergeEntries, n)

\* fetch_average_deck, "# Normalize cards"
NormalizeCards ==
    /\ deck_pc = "cards"
    /\ normalized' = NormalizeAll(cards)
    /\ deck_pc' = "normalized"
    /\ UNCHANGED <<cards, combined, result, requestVars, findVars, bracketVars, discVars, tagVars, locVars, fetchVars, walkVars, htmlVars, parseVars, svcVars>>

\* fetch_average_deck, "# Deduplicate cards".  The loop adds to the first
\* card object of each key in place; `normalized` is not read afterwards and
\* keeps here the cards as they were normalised.
DeduplicateCards ==
    /\ deck_pc = "normalized"
    /\ combined' = MergeAll(<<>>, normalized)
    /\ deck_pc' = "merged"
    /\ UNCHANGED <<cards, normalized, result, requestVars, findVars, bracketVars, discVars, tagVars, locVars, fetchVars, walkVars, htmlVars, parseVars, svcVars>>

\* {"name": card.name, "count": card.qty}
NameAndCount(card) == [name |-> card.name, count |-> card.qty]

\* fetch_average_deck, "# Separate commander from deck" and "# Build response":
\* the keys commander_card (<<>> for None) and deck.cards of `result`
BuildResult ==
    /\ deck_pc = "merged"
    /\ LET IsCommander(card) == card.is_commander
           IsNotCommander(card) == ~card.is_commander
           commander_cards == SelectSeq(combined, IsCommander)
           deck_cards == SelectSeq(combined, IsNotCommander)
       IN  result' =
             [ commander_card |-> IF commander_cards # <<>>
                                  THEN <<NameAndCount(commander_cards[1])>>
                                  ELSE <<>>,
               deck_cards |-> [i \in DOMAIN deck_cards |-> NameAndCount(deck_cards[i])] ]
    /\ deck_pc' = "built"
    /\ UNCHANGED <<cards, normalized, combined, requestVars, findVars, bracketVars, discVars, tagVars, locVars, fetchVars, walkVars, htmlVars, parseVars, svcVars>>

InitDeck ==
    /\ cards \in CardLists(MaxCards)
    /\ normalized = <<>>
    /\ combined = <<>>
    /\ result = <<>>
    /\ deck_pc = "cards"
    /\ RequestIdle /\ FindIdle /\ BracketIdle /\ DiscIdle /\ TagIdle /\ LocIdle /\ FetchIdle /\ WalkIdle /\ HtmlIdle /\ ParseIdle /\ ServiceIdle
NextDeck == NormalizeCards \/ DeduplicateCards \/ BuildResult
SpecDeck == InitDeck /\ [][NextDeck]_vars

(***************************************************************************)
(* Properties of the normalisation and merge (checked under SpecDeck)      *)
(***************************************************************************)
\* the normalised cards whose name equals that of card n ignoring case
Group(n) ==
    {m \in DOMAIN normalized :
        EqualIgnoringCase(normalized[m].name, normalized[n].name)}
\* the first-seen member of each group
FirstSeen == {n \in DOMAIN normalized : n = Min(Group(n))}

RECURSIVE SumQty(_)
SumQty(S) ==
    IF S = {} THEN 0
    ELSE LET n == CHOOSE x \in S : TRUE
         IN  normalized[n].qty + SumQty(S \ {n})

\* C1: after the merge no two records have names equal ignoring case; each
\* group of normalised cards whose names differ only by case has one record,
\* with the sum of the group's quantities, the OR of its commander flags,
\* and the spelling and the place (among the groups) of its first member.
C1_MergeByLowercaseName ==
    deck_pc = "merged" =>
        /\ \A i, j \in DOMAIN combined :
                i # j => ~EqualIgnoringCase(combined[i].name, combined[j].name)
        /\ Len(combined) = Cardinality(FirstSeen)
        /\ \A n \in FirstSeen :
                LET place == Cardinality({m \in FirstSeen : m <= n})
                IN  combined[place] =
                        _NormalizedCard(normalized[n].name,
                                        SumQty(Group(n)),
                                        \E m \in Group(n) : normalized[m].is_commander)

\* three cards, the first and third differing only by case and by their
\* commander flag, merged into the first of two records
C1_Witness ==
    /\ deck_pc = "merged"
    /\ Len(normalized) = 3 /\ Len(combined) = 2
    /\ Group(1) = {1, 3}
    /\ normalized[1].name # normalized[3].name
    /\ ~normalized[1].is_commander /\ normalized[3].is_commander
    /\ combined[1].name = normalized[1].name
    /\ combined[1].qty = normalized[1].qty + normalized[3].qty
    /\ combined[1].is_commander

\* C2: no card produced by _normalize_card_entry has a name that matches
\* the quantity-prefix pattern, whatever the shape of the raw entry.
C2_NoQuantityPrefixedName ==
    deck_pc \in {"normalized", "merged"} =>
        \A i \in DOMAIN normalized : ~MatchesQuantityPrefix(normalized[i].name)

\* a string that is not blank
NonBlankString(v) == IsStr(v) /\ \E i \in DOMAIN v[2] : ~IsSpace(v[2][i])

\* the raw entry has a usable name: it is a non-blank string, or an object
\* that holds, itself or in its nested card object, a non-blank string under
\* a name key or in the list `names`
HasUsableName(entry) ==
    \/ NonBlankString(entry)
    \/ /\ IsDict(entry)
       /\ \E d \in {entry} \cup (IF IsDict(Get(entry, "card")) THEN {Get(entry, "card")} ELSE {}) :
            \/ \E key \in {"name", "cardName", "card_name", "label", "title"} :
                  NonBlankString(Get(d, key))
            \/ /\ IsList(Get(d, "names"))
               /\ \E i \in DOMAIN Get(d, "names")[2] : NonBlankString(Get(d, "names")[2][i])

\* C16: an entry without a usable name gives no card, and the cards of the
\* other entries are what they are without it: the normalized list is the one
\* the entries with a usable name give on their own
C16_NamelessEntriesDropped ==
    deck_pc # "cards" =>
        /\ normalized = NormalizeAll(SelectSeq(cards, HasUsableName))
        /\ Len(normalized) <= Cardinality({i \in DOMAIN cards : HasUsableName(cards[i])})

\* three entries, the second an object with a blank label only: the cards of
\* the first and the third are produced
C16_Witness ==
    /\ deck_pc = "normalized"
    /\ cards = << JStr(N_Sol), Entry2("label", JStr(N_Blank), "qty", JInt(2)),
                  Entry2("label", JStr(N_Bo), "is_commander", JBool(TRUE)) >>
    /\ normalized = << _NormalizedCard(N_Sol, 1, FALSE), _NormalizedCard(N_Bo, 1, TRUE) >>

\* the integer a quantity value stands for, <<>> when it stands for none: an
\* integer, a float truncated, a string of digits only (once trimmed, when
\* trimmed is set); booleans and all other values stand for none
QuantityOf(v, trimmed) ==
    IF IsInt(v) THEN <<v[2]>>
    ELSE IF IsFloat(v)
    THEN <<(IF v[2] < 0 THEN -1 ELSE 1) * ((IF v[2] < 0 THEN -v[2] ELSE v[2]) \div 10)>>
    ELSE IF IsStr(v) /\ IsDigitText(IF trimmed THEN Strip(v[2]) ELSE v[2])
    THEN <<ParseInt(IF trimmed THEN Strip(v[2]) ELSE v[2])>>
    ELSE <<>>

\* the quantity the claim gives the card of a single raw object
ClaimedQty(entry, trimmed) ==
    LET source == IF IsDict(Get(entry, "card"))
                  THEN MergeDicts(entry, Get(entry, "card")) ELSE entry
        order  == <<"qty", "quantity", "count", "copies", "amount", "q">>
        coerce == {i \in DOMAIN order : QuantityOf(Get(source, order[i]), trimmed) # <<>>}
        value  == IF coerce = {} THEN 1
                  ELSE QuantityOf(Get(source, order[Min(coerce)]), trimmed)[1]
    IN  IF value < 1 THEN 1 ELSE value

\* every card has an integer quantity of at least 1, and the card of a single
\* raw object has the quantity the claim gives it
QtyAsClaimed(trimmed) ==
    deck_pc = "normalized" =>
        /\ \A i \in DOMAIN normalized : normalized[i].qty \in Int /\ normalized[i].qty >= 1
        /\ (Len(cards) = 1 /\ IsDict(cards[1]) /\ normalized # <<>>)
              => normalized[1].qty = ClaimedQty(cards[1], trimmed)

\* C17 as stated: every card has an integer quantity of at least 1, the value
\* of the first key in the order qty, quantity, count, copies, amount, q that
\* coerces (an integer, a float truncated, a digit-only string; booleans and
\* other values skipped), raised to 1 when lower, and 1 when no key coerces
C17_QtyFromDigitOnlyStrings == QtyAsClaimed(FALSE)

\* C17 amended: the same, a string coercing when it holds digits only once the
\* whitespace around them is trimmed
C17_QtyFromTrimmedDigitStrings == QtyAsClaimed(TRUE)

\* qty holds -2.7 and quantity 3: qty coerces first, to -2, and is raised to 1
C17_Witness ==
    /\ deck_pc = "normalized"
    /\ cards = << JDict(<< <<"name", JStr(N_Sol)>>, <<"qty", JFloat(-27)>>,
                           <<"quantity", JInt(3)>> >>) >>
    /\ normalized = << _NormalizedCard(N_Sol, 1, FALSE) >>

\* the cards of the result, commander_card first
ResultCards == result.commander_card \o result.deck_cards

\* the merged cards without the i-th
RECURSIVE Without(_, _)
Without(seq, i) ==
    IF i = 1 THEN Tail(seq) ELSE <<Head(seq)>> \o Without(Tail(seq), i - 1)

\* C13: in the result every merged card appears exactly once across
\* commander_card and deck.cards: commander_card is the first merged card
\* flagged as commander (none when no card is flagged), and deck.cards holds
\* all the other merged cards in first-seen order, further flagged cards included
C13_EveryMergedCardOnce ==
    deck_pc = "built" =>
        LET flagged == {i \in DOMAIN combined : combined[i].is_commander}
            rest == IF flagged = {} THEN combined ELSE Without(combined, Min(flagged))
        IN  /\ result.commander_card =
                  (IF flagged = {} THEN <<>> ELSE <<NameAndCount(combined[Min(flagged)])>>)
            /\ result.deck_cards = [i \in DOMAIN rest |-> NameAndCount(rest[i])]
            /\ \A i \in DOMAIN combined :
                  Cardinality({j \in DOMAIN ResultCards :
                                  ResultCards[j] = NameAndCount(combined[i])}) = 1

(***************************************************************************)
(* deep_find_cards.  An array is known by its place in the payload: the    *)
(* sequence of positions (of elements, of dict entries) leading to it.     *)
(***************************************************************************)
CardLikeNameKeys == <<"name", "cardName", "label", "sortname">>

is_card_like(item) ==
    IF IsStr(item)
    THEN Strip(item[2]) # <<>> /\ ~MatchesQuantityPrefix(Strip(item[2]))
    ELSE IF IsDict(item)
    THEN LET strs == {i \in DOMAIN CardLikeNameKeys :
                         IsStr(Get(item, CardLikeNameKeys[i]))}
         IN  IF IsDict(Get(item, "card")) /\ IsStr(Get(Get(item, "card"), "name"))
             THEN TRUE
             ELSE IF strs # {}
             THEN ~MatchesQuantityPrefix(
                      Strip(Get(item, CardLikeNameKeys[Min(strs)])[2]))
             ELSE /\ IsList(Get(item, "names"))
                  /\ \A i \in DOMAIN Get(item, "names")[2] :
                         IsStr(Get(item, "names")[2][i])
    ELSE FALSE

\* a walk that records an array as soon as one element is card-like
IsCardList_Any(node) ==
    node[2] # <<>> /\ \E i \in DOMAIN node[2] : is_card_like(node[2][i])

\* node and all(is_card_like(entry) for entry in node)
IsCardList(node) ==
    node[2] # <<>> /\ \A i \in DOMAIN node[2] : is_card_like(node[2][i])

\* walk(node), node standing at `path`; st holds seen_ids and seen_lists
RECURSIVE walk(_, _, _), WalkEach(_, _, _, _)
walk(node, path, st) ==
    IF IsList(node)
    THEN IF path \in st.seen_ids THEN st
         ELSE IF IsCardList(node)
         THEN [seen_ids |-> st.seen_ids \cup {path},
               seen_lists |-> Append(st.seen_lists, path)]
         ELSE WalkEach(node[2], 1, path,
                       [st EXCEPT !.seen_ids = st.seen_ids \cup {path}])
    ELSE IF IsDict(node)
    THEN WalkEach(Values(node), 1, path, st)
    ELSE st

\* `for entry in node: walk(entry)`, from position i on
WalkEach(children, i, path, st) ==
    IF i > Len(children) THEN st
    ELSE WalkEach(children, i + 1, path,
                  walk(children[i], Append(path, i), st))

\* the container standing at `path` in node
RECURSIVE At(_, _)
At(node, path) ==
    IF path = <<>> THEN node
    ELSE At(IF IsList(node) THEN node[2][path[1]] ELSE Values(node)[path[1]],
            Tail(path))

\* flattened: the recorded arrays' elements, in order
RECURSIVE Flatten(_, _)
Flatten(root, paths) ==
    IF paths = <<>> THEN <<>>
    ELSE At(root, paths[1])[2] \o Flatten(root, Tail(paths))

\* the arrays recorded by walk(obj)
SeenLists(root) == walk(root, <<>>, [seen_ids |-> {}, seen_lists |-> <<>>]).seen_lists

\* deep_find_cards(obj): None, or the list `flattened`
deep_find_cards(root) ==
    IF SeenLists(root) = <<>> THEN JNull
    ELSE JList(Flatten(root, SeenLists(root)))

\* array elements of every kind is_card_like tells apart, and containers
FindItems ==
    { JStr(N_Sol), JStr(N_Blank), JStr(N_Prefixed),
      JInt(3), JNull,
      Entry1("name", JStr(N_Sol)),
      Entry1("name", JStr(N_Prefixed)),
      Entry2("name", JInt(7), "label", JStr(N_Bo)),
      Entry2("name", JStr(N_Sol), "label", JStr(N_Prefixed)),
      Entry1("cardName", JStr(N_Blank)),
      Entry1("sortname", JStr(N_PaddedPrefixed)),
      Entry1("card", Entry1("name", JStr(N_Bo))),
      Entry1("card", Entry1("name", JStr(N_Prefixed))),
      Entry1("names", JList(<<JStr(N_Sol), JStr(N_Bo)>>)),
      Entry1("names", JList(<<JStr(N_Sol), JInt(3)>>)),
      Entry1("qty", JInt(2)),
      Entry1("cards", JList(<<JStr(N_Bo)>>)),
      JList(<<>>),
      JList(<<JStr(N_Sol)>>),
      JList(<<JStr(N_Prefixed), JList(<<Entry1("name", JStr(N_Bo))>>)>>) }

MaxArray == 2

\* the arrays of at most n items
FindArrays(n) == {JList(q) : q \in SeqsUpTo(FindItems, n)}

\* payloads: an array, an array below two objects, and an object holding an
\* array before or after another array
Payloads(n) ==
    FindArrays(n)
    \cup {Entry1("props", Entry1("pageProps", a)) : a \in FindArrays(n)}
    \cup {Entry2("first", a, "second", JList(<<JStr(N_Bo)>>)) : a \in FindArrays(n)}
    \cup {Entry2("first", b, "second", a) :
            a \in FindArrays(n),
            b \in {JList(<<Entry1("name", JStr(N_sol))>>)}}

DeepFindCards ==
    /\ find_pc = "call"
    /\ seen_lists' = SeenLists(obj)
    /\ found' = deep_find_cards(obj)
    /\ find_pc' = "returned"
    /\ UNCHANGED <<obj, requestVars, deckVars, bracketVars, discVars, tagVars, locVars, fetchVars, walkVars, htmlVars, parseVars, svcVars>>

InitFind ==
    /\ obj \in Payloads(MaxArray)
    /\ seen_lists = <<>>
    /\ found = JNull
    /\ find_pc = "call"
    /\ RequestIdle /\ DeckIdle /\ BracketIdle /\ DiscIdle /\ TagIdle /\ LocIdle /\ FetchIdle /\ WalkIdle /\ HtmlIdle /\ ParseIdle /\ ServiceIdle
NextFind == DeepFindCards
SpecFind == InitFind /\ [][NextFind]_vars

(***************************************************************************)
(* Properties of deep_find_cards (checked under SpecFind)                  *)
(***************************************************************************)
\* the places of all arrays of a value
RECURSIVE ArrayPaths(_, _)
ArrayPaths(node, path) ==
    LET children == IF IsList(node) THEN node[2]
                    ELSE IF IsDict(node) THEN Values(node) ELSE <<>>
    IN  (IF IsList(node) THEN {path} ELSE {})
        \cup UNION {ArrayPaths(children[i], Append(path, i)) : i \in DOMAIN children}

\* a non-empty array all of whose elements are card-like
AllCardLike(array) ==
    array[2] # <<>> /\ \A i \in DOMAIN array[2] : is_card_like(array[2][i])

\* an object with a quantity-prefixed name under one of the name keys or
\* under the nested card.name
HasPrefixedName(item) ==
    /\ IsDict(item)
    /\ \/ \E i \in DOMAIN CardLikeNameKeys :
            /\ IsStr(Get(item, CardLikeNameKeys[i]))
            /\ MatchesQuantityPrefix(Strip(Get(item, CardLikeNameKeys[i])[2]))
       \/ /\ IsDict(Get(item, "card"))
          /\ IsStr(Get(Get(item, "card"), "name"))
          /\ MatchesQuantityPrefix(Strip(Get(Get(item, "card"), "name")[2]))

\* C3: no recorded array has an element that is an object with a
\* quantity-prefixed name (under name, cardName, label, sortname or the
\* nested card.name).
C3_NoPrefixedNameInCardList ==
    find_pc = "returned" =>
        \A k \in DOMAIN seen_lists :
            \A i \in DOMAIN At(obj, seen_lists[k])[2] :
                ~HasPrefixedName(At(obj, seen_lists[k])[2][i])

\* C4: None is returned exactly when the payload holds no non-empty array
\* of card-like elements only; the value is never an empty list; only such
\* arrays are recorded, and the list returned is their elements, whole.
C4_NoneIffNoCardList ==
    find_pc = "returned" =>
        /\ (found = JNull) <=>
               ~\E p \in ArrayPaths(obj, <<>>) : AllCardLike(At(obj, p))
        /\ found # JList(<<>>)
        /\ \A k \in DOMAIN seen_lists : AllCardLike(At(obj, seen_lists[k]))
        /\ found # JNull => found = JList(Flatten(obj, seen_lists))

\* a mixed array (a card name beside a quantity-prefixed string) is all
\* there is: None is returned
C4_Witness ==
    /\ find_pc = "returned"
    /\ obj = JList(<<JStr(N_Sol), JStr(N_Prefixed)>>)
    /\ found = JNull

(***************************************************************************)
(* EDHRECService.get_average_deck and _find_average_deck_url               *)
(* An average-deck link is the slug of its path and the segments after it  *)
(* (none, one or two), as the regular expressions of lines 209 and 221     *)
(* take it apart; a URL is base_url followed by the link, so it is         *)
(* modelled by the link.                                                   *)
(***************************************************************************)
DeckLink(slug, parts) == [slug |-> slug, parts |-> parts]

\* list(dict.fromkeys(deck_links)): the first occurrence of each link, in order
RECURSIVE DictFromKeys(_)
DictFromKeys(links) ==
    IF links = <<>> THEN <<>>
    ELSE LET front == DictFromKeys(SubSeq(links, 1, Len(links) - 1))
             last  == links[Len(links)]
         IN  IF last \in Range(front) THEN front ELSE Append(front, last)

\* the local link_bracket: the groups of the match that are not empty, joined
link_bracket(link) == Join(link.parts, <<"/">>)

\* every link ends the scan at once, as the first link: the match is never taken
RECURSIVE ScanLinks_NeverMatches(_, _, _, _)
ScanLinks_NeverMatches(deck_links, i, normalized_bracket, available_brackets) ==
    IF i > Len(deck_links)
    THEN [url |-> <<deck_links[1]>>, available |-> available_brackets]
    ELSE ScanLinks_NeverMatches(deck_links, i + 1, normalized_bracket,
             available_brackets \cup {IF link_bracket(deck_links[i]) = <<>> THEN T_all
                                      ELSE link_bracket(deck_links[i])})

\* the loop `for link in deck_links` from the i-th link on, and the return
\* after it
RECURSIVE ScanLinks(_, _, _, _)
ScanLinks(deck_links, i, normalized_bracket, available_brackets) ==
    IF i > Len(deck_links)
    THEN [url |-> <<deck_links[1]>>, available |-> available_brackets]
    ELSE LET lb    == link_bracket(deck_links[i])
             added == available_brackets \cup {IF lb = <<>> THEN T_all ELSE lb}
         IN  IF lb = normalized_bracket
             THEN [url |-> <<deck_links[i]>>, available |-> added]
             ELSE ScanLinks(deck_links, i + 1, normalized_bracket, added)

\* page is what _find_commander_page and the fetch of its html give: <<>> for
\* no commander page, else the one-element sequence of the links re.findall
\* finds
_find_average_deck_url(page, bracket_arg) ==
    IF page = <<>> THEN [url |-> <<>>, available |-> {}]
    ELSE LET deck_links == DictFromKeys(page[1])
         IN  IF deck_links = <<>> THEN [url |-> <<>>, available |-> {}]
             ELSE ScanLinks(deck_links, 1, _normalize_bracket(bracket_arg), {})

MaxLinks == 3

\* the links a commander page is given
DeckLinks ==
    { DeckLink("atraxa", <<>>),
      DeckLink("atraxa", <<T_exhibition>>),
      DeckLink("atraxa", <<T_core>>),
      DeckLink("atraxa", <<T_upgraded>>),
      DeckLink("atraxa", <<T_core, T_budget>>),
      DeckLink("atraxa", <<T_all>>),
      DeckLink("edgar", <<T_exhibition>>) }

\* what the commander lookup is given to find: nothing, or a page with at
\* most n average-deck links
CommanderPages(n) == {<<>>} \cup {<<links>> : links \in SeqsUpTo(DeckLinks, n)}

\* the brackets asked for
DiscBrackets ==
    { T_precon, <<"P","r","e","c","o","n">>, T_exhibition, T_all, T_core,
      T_core \o <<"-">> \o T_budget, T_cedh, <<"3">> }

\* lines 64-66: the commander page is looked up, ValueError when there is none
FindCommanderPage ==
    /\ disc_pc = "find_page"
    /\ IF commander_page = <<>>
       THEN disc_outcome' = "ValueError: not found" /\ disc_pc' = "done"
       ELSE disc_outcome' = disc_outcome /\ disc_pc' = "find_url"
    /\ UNCHANGED <<commander_page, req_bracket, deck_info, deck_fetches>>
    /\ UNCHANGED <<requestVars, deckVars, findVars, bracketVars, tagVars, locVars, fetchVars, walkVars, htmlVars, parseVars, svcVars>>

\* line 69
FindAverageDeckUrl ==
    /\ disc_pc = "find_url"
    /\ deck_info' = _find_average_deck_url(commander_page, req_bracket)
    /\ disc_pc' = "fetch"
    /\ UNCHANGED <<commander_page, req_bracket, deck_fetches, disc_outcome>>
    /\ UNCHANGED <<requestVars, deckVars, findVars, bracketVars, tagVars, locVars, fetchVars, walkVars, htmlVars, parseVars, svcVars>>

\* lines 70-74: ValueError when no url came back, else the deck page is fetched
FetchDeckPage ==
    /\ disc_pc = "fetch"
    /\ IF deck_info.url = <<>>
       THEN disc_outcome' = "ValueError: no deck" /\ deck_fetches' = deck_fetches
       ELSE disc_outcome' = "fetched" /\ deck_fetches' = Append(deck_fetches, deck_info.url[1])
    /\ disc_pc' = "done"
    /\ UNCHANGED <<commander_page, req_bracket, deck_info>>
    /\ UNCHANGED <<requestVars, deckVars, findVars, bracketVars, tagVars, locVars, fetchVars, walkVars, htmlVars, parseVars, svcVars>>

InitDisc ==
    /\ commander_page \in CommanderPages(MaxLinks)
    /\ req_bracket \in DiscBrackets
    /\ deck_info = [url |-> <<>>, available |-> {}]
    /\ deck_fetches = <<>>
    /\ disc_outcome = "none"
    /\ disc_pc = "find_page"
    /\ RequestIdle /\ DeckIdle /\ FindIdle /\ BracketIdle /\ TagIdle /\ LocIdle /\ FetchIdle /\ WalkIdle /\ HtmlIdle /\ ParseIdle /\ ServiceIdle
NextDisc == FindCommanderPage \/ FindAverageDeckUrl \/ FetchDeckPage
SpecDisc == InitDisc /\ [][NextDisc]_vars

(***************************************************************************)
(* Properties of bracket discovery (checked under SpecDisc)                *)
(***************************************************************************)
\* the links of the commander page, in page order
PageLinks == IF commander_page = <<>> THEN <<>> ELSE commander_page[1]

\* discovery has returned
Discovered == disc_pc \in {"fetch", "done"} /\ disc_outcome # "ValueError: not found"

\* the bracket token a link implies: its trailing segments joined, or "all"
\* when it has none
ImpliedToken(link) == IF link.parts = <<>> THEN T_all ELSE Join(link.parts, <<"/">>)

\* the trailing segments of a link joined by "/", the empty text when it has none
JoinedSegments(link) == Join(link.parts, <<"/">>)

\* the first link in page order whose implied bracket Implied(link) equals the
\* normalized requested bracket; the first link when none does
UrlByFirstMatch(Implied(_)) ==
    LET matching == {i \in 1..Len(PageLinks) :
                        Implied(PageLinks[i]) = _normalize_bracket(req_bracket)}
    IN  IF PageLinks = <<>> THEN <<>>
        ELSE IF matching # {} THEN <<PageLinks[Min(matching)]>>
        ELSE <<PageLinks[1]>>

\* without a URL, get_average_deck raises and fetches no deck page
NoUrlNoFetch ==
    (disc_pc = "done" /\ deck_info.url = <<>>)
        => disc_outcome \in {"ValueError: not found", "ValueError: no deck"}
           /\ deck_fetches = <<>>

C12_AvailableHoldsEveryToken ==
    (Discovered /\ deck_info.url # <<>>)
        => \A i \in 1..Len(PageLinks) : ImpliedToken(PageLinks[i]) \in deck_info.available

(***************************************************************************)
(* utils/edhrec_commander.py: tag names                                    *)
(* A function of this file returns a value or raises; a raised exception   *)
(* is the pair <<"raise", type>>.  None is JNull.                          *)
(***************************************************************************)
_MAX_TAG_LENGTH == 64

_STRUCTURAL_TAG_NAMES ==
    { <<"t","h","e","m","e","s">>,
      <<"k","i","n","d","r","e","d">>,
      <<"n","e","w"," ","c","a","r","d","s">>,
      <<"h","i","g","h"," ","s","y","n","e","r","g","y">>,
      <<"h","i","g","h"," ","s","y","n","e","r","g","y"," ","c","a","r","d","s">>,
      <<"t","o","p"," ","c","a","r","d","s">>,
      <<"g","a","m","e"," ","c","h","a","n","g","e","r","s">>,
      <<"c","a","r","d"," ","t","y","p","e","s">>,
      <<"c","r","e","a","t","u","r","e","s">>,
      <<"s","p","e","l","l","s">>,
      <<"e","n","c","h","a","n","t","m","e","n","t","s">>,
      <<"a","r","t","i","f","a","c","t","s">>,
      <<"i","n","s","t","a","n","t","s">>,
      <<"s","o","r","c","e","r","i","e","s">>,
      <<"p","l","a","n","e","s","w","a","l","k","e","r","s">>,
      <<"b","a","t","t","l","e","s">>,
      <<"l","a","n","d","s">>,
      <<"u","t","i","l","i","t","y"," ","l","a","n","d","s">>,
      <<"m","a","n","a"," ","a","r","t","i","f","a","c","t","s">>,
      <<"u","t","i","l","i","t","y"," ","a","r","t","i","f","a","c","t","s">> }

Raise(type) == <<"raise", type>>
Raises(v) == v[1] = "raise"

\* bool(v) of a JSON value
Truthy(v) ==
    CASE v[1] = "null" -> FALSE
      [] IsBool(v) -> v[2]
      [] IsInt(v) \/ IsFloat(v) -> v[2] # 0
      [] OTHER -> v[2] # <<>>

\* the length of the longest prefix, and of the longest suffix, of s whose
\* characters all satisfy P: what \d+ and \s* take at the start or the end
LeadingRun(s, P(_)) ==
    CHOOSE k \in 0..Len(s) :
        (\A i \in 1..k : P(s[i])) /\ (k = Len(s) \/ ~P(s[k + 1]))
TrailingRun(s, P(_)) ==
    CHOOSE k \in 0..Len(s) :
        (\A i \in (Len(s) - k + 1)..Len(s) : P(s[i])) /\ (k = Len(s) \/ ~P(s[Len(s) - k]))

\* re.sub(r'^\d+\.\s*', '', s)
SubOrdinal(s) ==
    LET digits == LeadingRun(s, IsDigit)
    IN  IF digits >= 1 /\ digits < Len(s) /\ s[digits + 1] = "."
        THEN LET rest == SubSeq(s, digits + 2, Len(s))
             IN  SubSeq(rest, LeadingRun(rest, IsSpace) + 1, Len(rest))
        ELSE s

\* Where a count ends the text s: [stem, digits] when s is a stem, then
\* whitespace, then digits (in parentheses when parenthesized), else <<>>.
\* The stem is what is left of the whitespace; it may be empty.
CountSuffix(s, parenthesized) ==
    LET inner  == IF parenthesized THEN SubSeq(s, 1, Len(s) - 1) ELSE s
        digits == TrailingRun(inner, IsDigit)
        start  == Len(inner) - digits + (IF parenthesized THEN 0 ELSE 1)
        closed == ~parenthesized
                  \/ (s # <<>> /\ s[Len(s)] = ")" /\ start >= 1 /\ s[start] = "(")
        before == SubSeq(s, 1, start - 1)
        spaces == TrailingRun(before, IsSpace)
    IN  IF digits >= 1 /\ closed /\ spaces >= 1
        THEN <<[stem   |-> SubSeq(before, 1, Len(before) - spaces),
                digits |-> SubSeq(inner, Len(inner) - digits + 1, Len(inner))]>>
        ELSE <<>>

\* re.sub(r'\s+\(\d+\)$', '', s); $ also matches before a newline that ends s
SubCount(s) ==
    LET newline == s # <<>> /\ s[Len(s)] = "\n"
        body    == IF newline THEN SubSeq(s, 1, Len(s) - 1) ELSE s
        suffix  == CountSuffix(body, TRUE)
    IN  IF suffix = <<>> THEN s
        ELSE suffix[1].stem \o (IF newline THEN <<"\n">> ELSE <<>>)

\* normalize_commander_tag_name(name): JStr of the name, JNull for None, or
\* the AttributeError of name.strip() for a value that is not a string
normalize_commander_tag_name(name) ==
    IF ~Truthy(name) THEN JNull
    ELSE IF ~IsStr(name) THEN Raise("AttributeError")
    ELSE LET stripped == Strip(name[2])
             cut == IF Len(stripped) > _MAX_TAG_LENGTH
                    THEN SubSeq(stripped, 1, _MAX_TAG_LENGTH) ELSE stripped
             normalized_name == Strip(SubCount(SubOrdinal(cut)))
         IN  IF normalized_name = <<>> THEN JNull ELSE JStr(normalized_name)

\* the names are compared as given, not in lower case
TagKey_AsGiven(name) == name

\* name.lower(), what `seen` holds and the deny-list is asked for
TagKey(name) == Lower(name)

\* normalize_commander_tags: the loop over the tags left, `normalized` so far;
\* `seen` is the keys of `normalized`
RECURSIVE NormalizeTagLoop(_, _)
NormalizeTagLoop(tags, normalized_tags) ==
    IF tags = <<>> THEN JList(normalized_tags)
    ELSE LET name == normalize_commander_tag_name(Head(tags))
             seen == {TagKey(normalized_tags[i][2]) : i \in DOMAIN normalized_tags}
         IN  IF Raises(name) THEN name
             ELSE IF /\ Truthy(name)
                     /\ TagKey(name[2]) \notin seen
                     /\ TagKey(name[2]) \notin _STRUCTURAL_TAG_NAMES
             THEN NormalizeTagLoop(Tail(tags), Append(normalized_tags, name))
             ELSE NormalizeTagLoop(Tail(tags), normalized_tags)

\* normalize_commander_tags(tags), tags a list: the list of the names, each a
\* JStr, or the exception raised
normalize_commander_tags(tags) == NormalizeTagLoop(tags, <<>>)

\* split_commander_tag_name_and_count(text): the pair returned, name and count
split_commander_tag_name_and_count(text) ==
    IF text = <<>> THEN <<JNull, JNull>>
    ELSE LET stripped == Strip(text)
             \* re.match of '^(.+)\s+\((\d+)\)$' or '^(.+)\s+(\d+)$': group 1 is
             \* not empty and, matched by dots, holds no newline
             Match(parenthesized) ==
                 LET suffix == CountSuffix(stripped, parenthesized)
                 IN  IF /\ suffix # <<>>
                        /\ suffix[1].stem # <<>>
                        /\ "\n" \notin Range(suffix[1].stem)
                     THEN suffix ELSE <<>>
             Split(match) == <<normalize_commander_tag_name(JStr(match[1].stem)),
                               JInt(ParseInt(match[1].digits))>>
         IN  IF Match(TRUE) # <<>> THEN Split(Match(TRUE))
             ELSE IF Match(FALSE) # <<>> THEN Split(Match(FALSE))
             ELSE <<normalize_commander_tag_name(JStr(stripped)), JNull>>

\* the hrefs given to links, and those among them _TAG_LINK_RE finds a
\* /tags/ or /themes/ path in
Hrefs == {"/tags/tokens", "/themes/lands/wubrg", "/commanders/atraxa"}
TagHrefs == {"/tags/tokens", "/themes/lands/wubrg"}

\* parse_commander_count(value): JInt of the count, or JNull for None
parse_commander_count(value) ==
    IF IsInt(value) \/ IsFloat(value)
    THEN IF value[2] >= 0
         THEN JInt(IF IsFloat(value) THEN value[2] \div 10 ELSE value[2])
         ELSE JNull
    ELSE IF IsStr(value)
    THEN LET NotComma(c) == c # ","
             text  == SelectSeq(value[2], NotComma)      \* value.replace(',', '')
             digits_at == {i \in DOMAIN text : IsDigit(text[i])}
         IN  IF digits_at = {} THEN JNull                    \* re.search(r'\d+', ...)
             ELSE LET rest == SubSeq(text, Min(digits_at), Len(text))
                  IN  JInt(ParseInt(SubSeq(rest, 1, LeadingRun(rest, IsDigit))))
    ELSE JNull

\* {"tag": name, "deck_count": count}
TagRecord(name, count) == [tag |-> name, deck_count |-> count]

\* d.get(key, default)
GetOr(d, key, default) == IF key \in Keys(d) THEN Get(d, key) ELSE default

\* The items of the first section of data["panels"]["links"] whose header
\* matches ^tags$ with re.IGNORECASE ($ also before a newline that ends the
\* header): <<"items", items>>, <<"none">> without such a section or panels.links,
\* or the exception raised on the way.  page_props and what it holds under
\* data, panels and links are an object, objects and a list.
TagsSection(page_props) ==
    LET data  == GetOr(page_props, "data", JDict(<<>>))
        links == IF "panels" \in Keys(data) /\ "links" \in Keys(Get(data, "panels"))
                 THEN Get(Get(data, "panels"), "links")[2] ELSE <<>>
        IsTagsHeader(header) ==
            Lower(header[2]) \in {<<"t","a","g","s">>, <<"t","a","g","s","\n">>}
        \* the sections the loop reaches: all up to the first that raises or matches
        ends  == {i \in DOMAIN links :
                     \/ ~IsDict(links[i])
                     \/ ~IsStr(GetOr(links[i], "header", JStr(<<>>)))
                     \/ IsTagsHeader(GetOr(links[i], "header", JStr(<<>>)))}
    IN  IF ends = {} THEN <<"none">>
        ELSE LET section == links[Min(ends)]
             IN  IF ~IsDict(section) THEN Raise("AttributeError")
                 ELSE IF ~IsStr(GetOr(section, "header", JStr(<<>>))) THEN Raise("TypeError")
                 ELSE <<"items", GetOr(section, "items", JList(<<>>))[2]>>

\* the list commander["metadata"]["tagCloud"] of the old structure: <<items>>,
\* <<>> when it is missing or no list
TagCloud(page_props) ==
    LET commander == GetOr(page_props, "commander", JDict(<<>>))
    IN  IF /\ "metadata" \in Keys(commander)
           /\ "tagCloud" \in Keys(Get(commander, "metadata"))
           /\ IsList(Get(Get(commander, "metadata"), "tagCloud"))
        THEN <<Get(Get(commander, "metadata"), "tagCloud")[2]>>
        ELSE <<>>

\* the loop over the items of the tags section, `kept` so far: the list of the
\* items that add a tag (the objects with a name of at most 64 characters), or
\* the TypeError of len(name)
RECURSIVE SectionItems(_, _)
SectionItems(items, kept) ==
    IF items = <<>> THEN JList(kept)
    ELSE LET item == Head(items)
             name == Get(item, "name")
         IN  IF ~(IsDict(item) /\ Truthy(name)) THEN SectionItems(Tail(items), kept)
             ELSE IF ~(IsStr(name) \/ IsList(name) \/ IsDict(name)) THEN Raise("TypeError")
             ELSE IF Len(name[2]) <= _MAX_TAG_LENGTH
             THEN SectionItems(Tail(items), Append(kept, item))
             ELSE SectionItems(Tail(items), kept)

\* what the loop appends to tags: Tag(item) of each item that adds a tag
SectionTags(items, Tag(_)) ==
    LET kept == SectionItems(items, <<>>)
    IN  IF Raises(kept) THEN kept
        ELSE JList([i \in DOMAIN kept[2] |-> Tag(kept[2][i])])

\* the comprehension over tag_cloud: the list of what Tag(item) gives for the
\* items with a name, or the AttributeError of item.get on a value that is no
\* object
CloudTags(tag_cloud, Tag(_)) ==
    LET HasName(item) == Truthy(Get(item, "name"))
        IsObject(item) == IsDict(item)
        named == SelectSeq(SelectSeq(tag_cloud, IsObject), HasName)
    IN  IF \E i \in DOMAIN tag_cloud : ~IsDict(tag_cloud[i]) THEN Raise("AttributeError")
        ELSE JList([i \in DOMAIN named |-> Tag(named[i])])

\* the body of the try of both JSON extractors; Modern(item) and Legacy(item)
\* are what an item of the tags section and of the tag cloud give
ExtractTags(payload, Modern(_), Legacy(_)) ==
    LET page_props == GetOr(GetOr(payload, "props", JDict(<<>>)), "pageProps", JDict(<<>>))
        section == TagsSection(page_props)
    IN  IF Raises(section) THEN section
        ELSE IF section[1] = "items" THEN SectionTags(section[2], Modern)
        ELSE IF TagCloud(page_props) # <<>> THEN CloudTags(TagCloud(page_props)[1], Legacy)
        ELSE JList(<<>>)

\* extract_commander_tags_with_counts_from_json(payload): the list of records
extract_commander_tags_with_counts_from_json(payload) ==
    LET count_keys == <<"deckCount", "deck_count", "numDecks", "count">>
        Modern(item) ==
            LET present == {i \in DOMAIN count_keys : count_keys[i] \in Keys(item)}
            IN  TagRecord(Get(item, "name"),
                          IF present = {} THEN JNull
                          ELSE parse_commander_count(Get(item, count_keys[Min(present)])))
        Legacy(item) == TagRecord(Get(item, "name"), Get(item, "deckCount"))
        tags == ExtractTags(payload, Modern, Legacy)
    IN  IF Raises(tags) THEN JList(<<>>) ELSE tags      \* except Exception: pass

\* extract_commander_tags_from_json(payload): the list of names
extract_commander_tags_from_json(payload) ==
    LET Name(item) == Get(item, "name")
        tags == ExtractTags(payload, Name, Name)
    IN  IF Raises(tags) \/ Raises(normalize_commander_tags(tags[2]))
        THEN JList(<<>>)                                \* except Exception: pass
        ELSE normalize_commander_tags(tags[2])

\* the record of a pair of name and count
PairRecord(name_count) == TagRecord(name_count[1], name_count[2])

\* extract_commander_tags_with_counts_from_html(html): html is the links with
\* an href of the div of class tag-cloud, <<>> without such a div; a link is
\* its href and its text
extract_commander_tags_with_counts_from_html(html) ==
    LET Kept(link) ==
            /\ link.href \in TagHrefs                   \* _TAG_LINK_RE.search
            /\ Strip(link.text) # <<>>                  \* get_text(strip=True)
            /\ Len(Strip(link.text)) <= _MAX_TAG_LENGTH
            /\ Truthy(split_commander_tag_name_and_count(Strip(link.text))[1])
        kept == SelectSeq(html, Kept)
    IN  JList([i \in DOMAIN kept |->
                 PairRecord(split_commander_tag_name_and_count(Strip(kept[i].text)))])

MaxTags == 3

\* the characters of a text of n times the character c
Repeat(c, n) == [i \in 1..n |-> c]

\* the tags handed to normalize_commander_tags
TagInputs ==
    { JStr(<<"1","."," ","T","o","k","e","n","s">>), JStr(<<"T","O","K","E","N","S"," "," ","(","1","2",")">>), JStr(<<"G","o">>),
      JStr(<<"T","o","p"," ","C","a","r","d","s">>), JStr(<<"1","."," ","L","A","N","D","S"," ","(","3",")">>),
      JStr(<<"1","2","."," ">>),
      JStr(Repeat("a", 70)),
      JStr(Repeat("b", 58) \o <<" ","(","1","2",")","\n","(","3",")">>),
      JStr(<<"L","a","n","d","s">> \o Repeat(" ", 60) \o <<"x">>),
      JNull, JInt(5) }

TagLists(n) == SeqsUpTo(TagInputs, n)

MaxItems == 2

\* the items given to the tags section
TagItems ==
    { Entry2("name", JStr(<<"T","o","k","e","n","s">>), "deckCount", JInt(12)),
      Entry2("name", JStr(<<"1","."," ","G","o"," ","(","3",")">>), "count", JStr(<<"1",",","2","3","4"," ","d","e","c","k","s">>)),
      Entry2("name", JStr(<<"L","a","n","d","s">>), "numDecks", JInt(-3)),
      Entry2("name", JStr(<<"t","o","k","e","n","s">>), "deck_count", JBool(TRUE)),
      Entry2("name", JStr(<<"G","o">>), "deckCount", JFloat(27)),
      JDict(<< <<"name", JStr(<<"U","p">>)>>, <<"count", JInt(4)>>, <<"deckCount", JNull>> >>),
      Entry1("name", JStr(Repeat("a", 70))),
      Entry1("name", JInt(5)),
      Entry1("name", JList(<<JStr(<<"G","o">>)>>)),
      Entry1("name", JStr(<<>>)),
      Entry1("label", JStr(<<"G","o">>)),
      JStr(<<"T","o","k","e","n","s">>),
      JNull }

\* the items given to the tag cloud of the old structure
CloudItems ==
    { Entry2("name", JStr(<<"T","o","k","e","n","s">>), "deckCount", JInt(12)),
      Entry2("name", JStr(<<"G","o">>), "deckCount", JInt(-4)),
      Entry2("name", JStr(<<"U","p">>), "deckCount", JStr(<<"m","a","n","y">>)),
      Entry2("name", JStr(<<"L","a","n","d","s">>), "deckCount", JBool(TRUE)),
      Entry1("name", JStr(<<"t","o","k","e","n","s">>)),
      Entry1("name", JStr(<<>>)),
      JStr(<<"T","o","k","e","n","s">>) }

\* a payload: the sections of props.pageProps.data.panels.links and the value
\* of props.pageProps.commander.metadata.tagCloud
TagPayload(links, tag_cloud) ==
    Entry1("props", Entry1("pageProps",
        Entry2("data", Entry1("panels", Entry1("links", JList(links))),
               "commander", Entry1("metadata", Entry1("tagCloud", tag_cloud)))))

\* a section of panels.links
Section(header, items) == Entry2("header", JStr(header), "items", JList(items))

\* the payloads given to the JSON extractors: a tags section of at most n
\* items, with or without a tag cloud beside it; a tag cloud of at most n items
\* beside no section, beside a section of another header, and beside a tags
\* section without items; a tag cloud that is no list; an empty payload
TagPayloads(n) ==
    {TagPayload(<<Section(<<"T","h","e","m","e","s">>, <<Entry1("name", JStr(<<"G","o">>))>>), Section(header, items)>>, cloud) :
        header \in {<<"T","a","g","s">>, <<"t","a","g","s","\n">>}, items \in SeqsUpTo(TagItems, n),
        cloud \in {JList(<<>>), JList(<<Entry1("name", JStr(<<"U","p">>))>>)}}
    \cup {TagPayload(links, JList(cloud)) :
            links \in {<<>>, <<Section(<<"T","h","e","m","e","s">>, <<Entry1("name", JStr(<<"G","o">>))>>)>>,
                       <<Section(<<"T","a","g","s">>, <<>>)>>},
            cloud \in SeqsUpTo(CloudItems, n)}
    \cup {TagPayload(<<>>, JStr(<<"T","o","k","e","n","s">>)), JDict(<<>>),
          TagPayload(<<JStr(<<"T","a","g","s">>)>>, JList(<<Entry1("name", JStr(<<"U","p">>))>>))}

\* the links given to the tag cloud of the html
TagLinks ==
    {[href |-> href, text |-> text] :
        href \in Hrefs,
        text \in {<<"T","o","k","e","n","s"," ","(","4","8","2",")">>, <<" ","G","o"," ","1","2"," ">>, <<"1","."," ","(","5",")">>, <<"U","p">>, <<" ">>, Repeat("a", 60) \o <<" ","(","1","2","3",")">>}}

\* the html pages given to the HTML extractor: a tag cloud of at most n links
TagClouds(n) == SeqsUpTo(TagLinks, n)

\* the labels handed to split_commander_tag_name_and_count
TagLabels ==
    { <<"A","r","i","s","t","o","c","r","a","t","s"," ","(","4","8","2",")">>, <<"T","o","k","e","n","s">>, <<"T","o","k","e","n","s"," ","1","2">>, <<"1","."," ","T","o","k","e","n","s"," ","(","5",")">>, <<"G","o"," "," ","(","0","0","7",")">>,
      <<"G","o","(","7",")">>, <<"(","7",")">>, <<"1","2">>, <<"5"," ","1","0">>, <<" ","G","o"," ","3"," ">>, <<"G","o","\n","(","3",")">>, <<"G","o","\t","\n"," ","(","3",")">>,
      <<"G","o","\n","U","p"," ","(","3",")">>, <<"G","o","\n","U","p"," ","3">>, <<"G","o"," ","(","1",")"," ","(","2",")">>, <<"1","."," ","(","5",")">>, <<>>, <<" ">>,
      <<"G","o"," ","(","3">>, <<"G","o"," ","(",")">>, <<"G","o"," ","("," ","3",")">>, <<"T","o","p"," ","C","a","r","d","s"," ","(","9",")">>, <<"G","o"," ","U","p">>, <<"G","o"," ","1"," ","2">> }

\* a call of normalize_commander_tags
NormalizeCommanderTags ==
    /\ tag_pc = "call"
    /\ tag_call[1] = "normalize_commander_tags"
    /\ tag_ret' = normalize_commander_tags(tag_call[2])
    /\ tag_pc' = "returned"
    /\ UNCHANGED <<tag_call, requestVars, deckVars, findVars, bracketVars, discVars, locVars, fetchVars, walkVars, htmlVars, parseVars, svcVars>>

\* a call of split_commander_tag_name_and_count
SplitCommanderTagNameAndCount ==
    /\ tag_pc = "call"
    /\ tag_call[1] = "split_commander_tag_name_and_count"
    /\ tag_ret' = split_commander_tag_name_and_count(tag_call[2])
    /\ tag_pc' = "returned"
    /\ UNCHANGED <<tag_call, requestVars, deckVars, findVars, bracketVars, discVars, locVars, fetchVars, walkVars, htmlVars, parseVars, svcVars>>

\* a call of extract_commander_tags_with_counts_from_json
ExtractTagsWithCountsFromJson ==
    /\ tag_pc = "call"
    /\ tag_call[1] = "extract_commander_tags_with_counts_from_json"
    /\ tag_ret' = extract_commander_tags_with_counts_from_json(tag_call[2])
    /\ tag_pc' = "returned"
    /\ UNCHANGED <<tag_call, requestVars, deckVars, findVars, bracketVars, discVars, locVars, fetchVars, walkVars, htmlVars, parseVars, svcVars>>

\* a call of extract_commander_tags_from_json
ExtractTagsFromJson ==
    /\ tag_pc = "call"
    /\ tag_call[1] = "extract_commander_tags_from_json"
    /\ tag_ret' = extract_commander_tags_from_json(tag_call[2])
    /\ tag_pc' = "returned"
    /\ UNCHANGED <<tag_call, requestVars, deckVars, findVars, bracketVars, discVars, locVars, fetchVars, walkVars, htmlVars, parseVars, svcVars>>

\* a call of extract_commander_tags_with_counts_from_html
ExtractTagsWithCountsFromHtml ==
    /\ tag_pc = "call"
    /\ tag_call[1] = "extract_commander_tags_with_counts_from_html"
    /\ tag_ret' = extract_commander_tags_with_counts_from_html(tag_call[2])
    /\ tag_pc' = "returned"
    /\ UNCHANGED <<tag_call, requestVars, deckVars, findVars, bracketVars, discVars, locVars, fetchVars, walkVars, htmlVars, parseVars, svcVars>>

InitTags ==
    /\ tag_call \in
         {<<"normalize_commander_tags", tags>> : tags \in TagLists(MaxTags)}
         \cup {<<"split_commander_tag_name_and_count", text>> : text \in TagLabels}
         \cup {<<fn, payload>> :
                 fn \in {"extract_commander_tags_with_counts_from_json",
                         "extract_commander_tags_from_json"},
                 payload \in TagPayloads(MaxItems)}
         \cup {<<"extract_commander_tags_with_counts_from_html", html>> :
                 html \in TagClouds(MaxItems)}
    /\ tag_ret = <<"none">>
    /\ tag_pc = "call"
    /\ RequestIdle /\ DeckIdle /\ FindIdle /\ BracketIdle /\ DiscIdle /\ LocIdle /\ FetchIdle /\ WalkIdle /\ HtmlIdle /\ ParseIdle /\ ServiceIdle
NextTags ==
    \/ NormalizeCommanderTags
    \/ SplitCommanderTagNameAndCount
    \/ ExtractTagsWithCountsFromJson
    \/ ExtractTagsFromJson
    \/ ExtractTagsWithCountsFromHtml
SpecTags == InitTags /\ [][NextTags]_vars

(***************************************************************************)
(* Properties of the tag functions (checked under SpecTags)                *)
(***************************************************************************)
\* the call of the function fn has returned a value
TagReturned(fn) == tag_pc = "returned" /\ tag_call[1] = fn /\ ~Raises(tag_ret)

\* how often the value v occurs in the sequence seq
Count(seq, v) == Cardinality({i \in DOMAIN seq : seq[i] = v})

\* C14: in the list normalize_commander_tags returns every name is non-empty
\* and at most 64 characters long, no name equals a deny-list entry ignoring
\* case, no two names are equal ignoring case, and the names are in the order
\* in which the input first shows them
C14_TagListIsNormalized ==
    TagReturned("normalize_commander_tags") =>
        LET names   == [i \in DOMAIN tag_ret[2] |-> tag_ret[2][i][2]]
            lowered == [i \in DOMAIN names |-> Lower(names[i])]
            denied  == {Lower(entry) : entry \in _STRUCTURAL_TAG_NAMES}
            \* the input, each tag as the lower case of its normalized name
            given   == [i \in DOMAIN tag_call[2] |->
                          LET name == normalize_commander_tag_name(tag_call[2][i])
                          IN  IF IsStr(name) THEN Lower(name[2]) ELSE <<>>]
            first   == [i \in DOMAIN names |->
                          Min({k \in DOMAIN given : given[k] = lowered[i]})]
        IN  /\ \A i \in DOMAIN names :
                  /\ IsStr(tag_ret[2][i])
                  /\ names[i] # <<>>
                  /\ Len(names[i]) <= 64
                  /\ lowered[i] \notin denied
                  /\ Count(lowered, lowered[i]) = 1
            /\ \A i, j \in DOMAIN names : i < j => first[i] < first[j]

\* a name of 70 characters is cut to 64, a later name that differs by case
\* only from a kept one and a structural name are left out
C14_Witness ==
    /\ TagReturned("normalize_commander_tags")
    /\ tag_call[2] = <<JStr(Repeat("a", 70)), JStr(<<"1","."," ","T","o","k","e","n","s">>), JStr(<<"T","O","K","E","N","S"," "," ","(","1","2",")">>)>>
    /\ tag_ret = JList(<<JStr(Repeat("a", 64)), JStr(<<"T","o","k","e","n","s">>)>>)

\* The trimmed label t read as a name, whitespace and a count that ends it,
\* the count in parentheses when parenthesized: <<name, digits>>, the name
\* ending in a character that is no whitespace; <<>> when t is not of that form
CountAtEnd(t, parenthesized) ==
    LET first == IF parenthesized THEN 1 ELSE 0     \* "(" before the digits
        last  == IF parenthesized THEN Len(t) - 1 ELSE Len(t)
        ends  == {ab \in (1..Len(t)) \X (1..Len(t)) :
                     /\ ab[1] + 1 < ab[2]
                     /\ ~IsSpace(t[ab[1]])
                     /\ \A i \in (ab[1] + 1)..(ab[2] - 1) : IsSpace(t[i])
                     /\ ab[2] + first <= last
                     /\ \A i \in (ab[2] + first)..last : IsDigit(t[i])
                     /\ parenthesized => t[ab[2]] = "(" /\ t[Len(t)] = ")"}
    IN  IF ends = {} THEN <<>>
        ELSE LET ab == CHOOSE x \in ends : TRUE
             IN  <<SubSeq(t, 1, ab[1]), SubSeq(t, ab[2] + first, last)>>

\* C15: split_commander_tag_name_and_count tries a trailing parenthesized
\* integer ("Name (123)" gives the name Name and the count 123), then a trailing
\* bare integer ("Name 123"), else gives the whole trimmed label as the name and
\* no count; the name is given normalized.  "Aristocrats (482)" gives
\* (Aristocrats, 482) and "Tokens" gives (Tokens, none).
C15_SplitNameAndCount ==
    TagReturned("split_commander_tag_name_and_count") =>
        LET t == Strip(tag_call[2])
            paren == CountAtEnd(t, TRUE)
            bare  == CountAtEnd(t, FALSE)
            Name(text) == normalize_commander_tag_name(JStr(text))
        IN  /\ tag_ret =
                  (IF paren # <<>> THEN <<Name(paren[1]), JInt(ParseInt(paren[2]))>>
                   ELSE IF bare # <<>> THEN <<Name(bare[1]), JInt(ParseInt(bare[2]))>>
                   ELSE <<Name(t), JNull>>)
            /\ tag_call[2] = <<"A","r","i","s","t","o","c","r","a","t","s"," ","(","4","8","2",")">>
                  => tag_ret = <<JStr(<<"A","r","i","s","t","o","c","r","a","t","s">>), JInt(482)>>
            /\ tag_call[2] = <<"T","o","k","e","n","s">> => tag_ret = <<JStr(<<"T","o","k","e","n","s">>), JNull>>

\* an item of the tags section is well formed when it is an object whose name
\* is a string
WellFormedItem(item) == IsDict(item) /\ IsStr(Get(item, "name"))

\* the items of the tags section of the payload of the call, <<>> without one
CalledItems ==
    LET section == TagsSection(GetOr(GetOr(tag_call[2], "props", JDict(<<>>)),
                                     "pageProps", JDict(<<>>)))
    IN  IF section[1] = "items" THEN section[2] ELSE <<>>

\* C19: when the tags section holds well-formed items and a malformed item (no
\* object, or a name that is no string), both JSON extractors drop the malformed
\* item alone: they return what they return for the well-formed items of the
\* section, and so never an empty list in place of the tags of those items.
C19_MalformedItemsDroppedAlone ==
    \A fn \in {"extract_commander_tags_with_counts_from_json",
               "extract_commander_tags_from_json"} :
        ( /\ TagReturned(fn)
          /\ \E i \in DOMAIN CalledItems : WellFormedItem(CalledItems[i])
          /\ \E i \in DOMAIN CalledItems : ~WellFormedItem(CalledItems[i]) ) =>
            LET sound == TagPayload(<<Section(<<"T","a","g","s">>,
                                              SelectSeq(CalledItems, WellFormedItem))>>,
                                    JList(<<>>))
            IN  tag_ret = (IF fn = "extract_commander_tags_from_json"
                           THEN extract_commander_tags_from_json(sound)
                           ELSE extract_commander_tags_with_counts_from_json(sound))

\* C20: every record returned by the extractors that carry counts
\* (extract_commander_tags_with_counts_from_json, on the tags section and on the
\* tag cloud of the old structure, and
\* extract_commander_tags_with_counts_from_html) has a deck count that is absent
\* or a non-negative integer, whatever the source carried.
C20_DeckCountAbsentOrNatural ==
    ( \/ TagReturned("extract_commander_tags_with_counts_from_json")
      \/ TagReturned("extract_commander_tags_with_counts_from_html") ) =>
        \A i \in DOMAIN tag_ret[2] :
            LET deck_count == tag_ret[2][i].deck_count
            IN  \/ deck_count = JNull
                \/ IsInt(deck_count) /\ deck_count[2] >= 0

\* C26: extract_commander_tags_with_counts_from_json falls back to the list
\* commander.metadata.tagCloud whenever the panels.links path yields no tag:
\* when no section is headed "tags", and when such a section yields no tag; in
\* both cases the tags of a tag cloud that has tags are returned.
C26_TagCloudWhenNoSectionTag ==
    TagReturned("extract_commander_tags_with_counts_from_json") =>
        LET page_props == GetOr(GetOr(tag_call[2], "props", JDict(<<>>)),
                                "pageProps", JDict(<<>>))
            section == TagsSection(page_props)
            cloud == TagCloud(page_props)
            IsObject(item) == IsDict(item)
            HasName(item) == Truthy(Get(item, "name"))
            named == SelectSeq(SelectSeq(cloud[1], IsObject), HasName)
        IN  ( /\ \/ section[1] = "none"
                 \/ section[1] = "items" /\ SectionItems(section[2], <<>>) = JList(<<>>)
              /\ cloud # <<>>
              /\ \A i \in DOMAIN cloud[1] : IsDict(cloud[1][i])
              /\ named # <<>> ) =>
                /\ Len(tag_ret[2]) = Len(named)
                /\ \A i \in DOMAIN named : tag_ret[2][i].tag = Get(named[i], "name")

(***************************************************************************)
(* The payload locators: _find_next_data (edhrec_complete.py) and the      *)
(* first lines of EDHRECService._parse_average_deck (edhrec_service.py).   *)
(* A page is what the two look for in its html: the text of the script     *)
(* element with id __NEXT_DATA__ and the text assigned by an inline        *)
(* `__NEXT_DATA__ = {...};`, each <<>> when the page has no such form.     *)
(* A text is <<"empty">> (nothing in the element), <<"not json">>, or a    *)
(* JSON document, written as the value it decodes to.                      *)
(***************************************************************************)
Html(element, inline) == [element |-> element, inline |-> inline]

\* a JSON document that holds the characters }; inside a string
HoldsTerminator == JDict(<< <<"note", JStr(<<"}", ";">>)>> >>)

\* the documents a page embeds
Documents == {JDict(<<>>), JDict(<< <<"props", JDict(<<>>)>> >>), HoldsTerminator}

\* json.loads(text): the value, or the JSONDecodeError
\* (a document is an object; the other texts are no JSON)
json_loads(text) == IF IsDict(text) THEN text ELSE Raise("JSONDecodeError")

\* an exception of the EdhrecError family: message and url
EdhrecError(type, message, url) == <<"raise", type, message, <<url>>>>

\* _find_next_data(html, url)
_find_next_data(html, url) ==
    LET script == html.element       \* soup.find("script", id="__NEXT_DATA__")
    IN  IF script = <<>> \/ script[1] = <<"empty">>
        THEN EdhrecError("EdhrecParsingError", "Missing __NEXT_DATA__ payload", url)
        ELSE IF Raises(json_loads(script[1]))
        THEN EdhrecError("EdhrecParsingError", "Invalid JSON in __NEXT_DATA__", url)
        ELSE json_loads(script[1])

\* group 1 of re.search(r'__NEXT_DATA__\s*=\s*(\{.*?\});', html, re.DOTALL),
\* <<>> for no match (nothing between braces is assigned): the assigned text
\* up to the first };
script_match(html) ==
    IF html.inline = <<>> \/ html.inline[1] = <<"empty">> THEN <<>>
    ELSE IF html.inline[1] = HoldsTerminator THEN << <<"not json">> >>
    ELSE html.inline

\* _parse_average_deck, lines 262-266: json_data, or the exception raised;
\* a ValueError has a message and no url
locate_json_data(html) ==
    IF script_match(html) = <<>>
    THEN <<"raise", "ValueError", "Could not find Next.js data in deck page", <<>>>>
    ELSE IF Raises(json_loads(script_match(html)[1]))
    THEN <<"raise", "JSONDecodeError", "", <<>>>>
    ELSE json_loads(script_match(html)[1])

\* the texts of a form: absent, empty, not JSON, a document
Texts_NextData == {<<>>, << <<"empty">> >>, << <<"not json">> >>} \cup {<<doc>> : doc \in Documents}

\* the pages handed to the locators
Pages == {Html(element, inline) : element \in Texts_NextData, inline \in Texts_NextData}

\* a call of _find_next_data(html, url)
FindNextData ==
    /\ loc_pc = "call"
    /\ loc_call[1] = "_find_next_data"
    /\ loc_ret' = _find_next_data(loc_call[2], loc_call[3])
    /\ loc_pc' = "returned"
    /\ UNCHANGED <<loc_call, requestVars, deckVars, findVars, bracketVars, discVars, tagVars, fetchVars, walkVars, htmlVars, parseVars, svcVars>>

\* a call of _parse_average_deck(html, commander_name, bracket), up to json_data
ParseAverageDeck ==
    /\ loc_pc = "call"
    /\ loc_call[1] = "_parse_average_deck"
    /\ loc_ret' = locate_json_data(loc_call[2])
    /\ loc_pc' = "returned"
    /\ UNCHANGED <<loc_call, requestVars, deckVars, findVars, bracketVars, discVars, tagVars, fetchVars, walkVars, htmlVars, parseVars, svcVars>>

InitLocate ==
    /\ loc_call \in
         {<<"_find_next_data", html, url>> :
             html \in Pages, url \in {"https://edhrec.com/average-decks/atraxa",
                                      "https://edhrec.com/average-decks/edgar/core"}}
         \cup {<<"_parse_average_deck", html, name>> :
                 html \in Pages, name \in {"Atraxa", "Edgar"}}
    /\ loc_ret = <<"none">>
    /\ loc_pc = "call"
    /\ RequestIdle /\ DeckIdle /\ FindIdle /\ BracketIdle /\ DiscIdle /\ TagIdle /\ FetchIdle /\ WalkIdle /\ HtmlIdle /\ ParseIdle /\ ServiceIdle
NextLocate == FindNextData \/ ParseAverageDeck
SpecLocate == InitLocate /\ [][NextLocate]_vars

(***************************************************************************)
(* Properties of the payload locators (checked under SpecLocate)           *)
(***************************************************************************)
\* the forms of the marker the page holds, and those that hold valid JSON
FormsPresent(html) == {form \in {html.element, html.inline} : form # <<>>}
FormsValid(html) == {form \in FormsPresent(html) : form[1] \in Documents}

\* C18: locating the payload succeeds and returns the decoded JSON both when
\* the marker is a script element with id __NEXT_DATA__ and when it is an
\* inline assignment; it fails only when neither form is present or the
\* content is not valid JSON, and then with a parsing error that names the
\* missing marker and carries the attempted URL
C18_BothFormsLocated ==
    loc_pc = "returned" =>
        LET html == loc_call[2]
        IN  /\ (FormsPresent(html) # {} /\ FormsValid(html) = FormsPresent(html))
                  => loc_ret \in {form[1] : form \in FormsValid(html)}
            /\ Raises(loc_ret)
                  => /\ loc_ret[2] = "EdhrecParsingError"
                     /\ loc_ret[3] \in {"Missing __NEXT_DATA__ payload",
                                        "Invalid JSON in __NEXT_DATA__"}
                     /\ loc_call[1] = "_find_next_data" => loc_ret[4] = <<loc_call[3]>>

(***************************************************************************)
(* fetch_commander_summary and fetch_average_deck (edhrec_complete.py).    *)
(* The html of a page is what the functions look for in it: the two forms  *)
(* of the __NEXT_DATA__ marker, as for the locators, and the links of the  *)
(* div of class tag-cloud.  The session is known by the requests it has    *)
(* sent and the calls of close() it has received.  The result of           *)
(* fetch_commander_summary is its tags and themes.                         *)
(***************************************************************************)
Page(element, inline, tag_cloud) ==
    [element |-> element, inline |-> inline, tag_cloud |-> tag_cloud]

\* the bound of `[:20]`
TagLimit == 20

\* extract_commander_tags_from_html(html): html is the links of the tag cloud
extract_commander_tags_from_html(html) ==
    LET Kept(link) ==
            /\ link.href \in TagHrefs
            /\ Strip(link.text) # <<>>
            /\ Len(Strip(link.text)) <= _MAX_TAG_LENGTH
        kept == SelectSeq(html, Kept)
    IN  normalize_commander_tags([i \in DOMAIN kept |-> JStr(Strip(kept[i].text))])

\* the items given to the tags section of a summary page
SummaryItems ==
    { Entry2("name", JStr(<<"T","o","k","e","n","s">>), "deckCount", JInt(12)),
      Entry2("name", JStr(<<"g","o">>), "count", JInt(3)),
      Entry1("name", JStr(<<"L","a","n","d","s">>)),
      Entry1("name", JList(<<JStr(<<"G","o">>)>>)) }

\* a tags section of n items of n different names
ManyTags(n) == [i \in 1..n |-> Entry2("name", JStr(<<"T", LowerCase[i]>>), "numDecks", JInt(i))]

\* the documents of a summary page: a tags section of at most n items; tags
\* sections that reach the limit of tags or stay one below or above it; a tag
\* cloud of the old structure; an empty object
SummaryDocuments(n) ==
    {TagPayload(<<Section(<<"T","a","g","s">>, items)>>, JList(<<>>)) : items \in SeqsUpTo(SummaryItems, n)}
    \cup {TagPayload(<<Section(<<"T","a","g","s">>, ManyTags(k))>>, JList(<<>>)) :
            k \in {TagLimit - 1, TagLimit, TagLimit + 1}}
    \cup {TagPayload(<<>>, JList(<<Entry2("name", JStr(<<"U","p">>), "deckCount", JInt(7))>>)),
          JDict(<<>>)}

\* the links given to the tag cloud of a summary page
SummaryLinks ==
    { [href |-> "/tags/tokens", text |-> <<"T","o","k","e","n","s"," ","(","4","8","2",")">>],
      [href |-> "/themes/lands/wubrg", text |-> <<"G","o"," ","1","2">>],
      [href |-> "/tags/tokens", text |-> <<"U","p">>] }

\* the summary pages: both forms of the marker, and a tag cloud of at most n links
SummaryPages(n) ==
    {Page(element, inline, tag_cloud) :
        element \in {<<>>, << <<"empty">> >>, << <<"not json">> >>}
                        \cup {<<doc>> : doc \in SummaryDocuments(n)},
        inline \in {<<>>, <<JDict(<<>>)>>},
        tag_cloud \in SeqsUpTo(SummaryLinks, n)}

\* the url of the summary page
SummaryUrl == "https://scryfall.com/commanders/atraxa"

\* a function that takes every session for its own
NoSession_Always(args) == TRUE

\* session is None
NoSession(args) == args.session = "None"

\* fetch_commander_summary, lines 368-376: the check of the name, and the
\* session made when none was given
SummaryEnter ==
    /\ fetch_pc = "call"
    /\ fetch_call[1] = "fetch_commander_summary"
    /\ IF Strip(fetch_call[2].name) = <<>>
       THEN /\ fetch_ret' = Raise("ValueError")
            /\ fetch_pc' = "done"
            /\ UNCHANGED own_session
       ELSE /\ own_session' = NoSession(fetch_call[2])
            /\ fetch_pc' = "get"
            /\ UNCHANGED fetch_ret
    /\ UNCHANGED <<fetch_call, fetch_locals, session_gets, session_closes, fetch_html>>
    /\ UNCHANGED <<requestVars, deckVars, findVars, bracketVars, discVars, tagVars, locVars, walkVars, htmlVars, parseVars, svcVars>>

\* lines 383-385: session.get fails, or answers with a status that
\* raise_for_status rejects, or answers with the page
SummaryGet ==
    /\ fetch_pc = "get"
    /\ fetch_call[1] = "fetch_commander_summary"
    /\ session_gets' = session_gets + 1
    /\ \/ /\ \E exc \in {"ConnectionError", "Timeout", "HTTPError"} :
                fetch_ret' = Raise(exc)
          /\ fetch_pc' = "finally"
          /\ UNCHANGED fetch_html
       \/ /\ \E html \in SummaryPages(MaxItems) : fetch_html' = <<html>>
          /\ fetch_pc' = "extract"
          /\ UNCHANGED fetch_ret
    /\ UNCHANGED <<fetch_call, fetch_locals, own_session, session_closes>>
    /\ UNCHANGED <<requestVars, deckVars, findVars, bracketVars, discVars, tagVars, locVars, walkVars, htmlVars, parseVars, svcVars>>

\* line 388: payload; _find_next_data raises out of the try
SummaryPayload ==
    /\ fetch_pc = "extract"
    /\ fetch_call[1] = "fetch_commander_summary"
    /\ LET html == fetch_html[1]
           payload == IF html.element # <<>> \/ html.inline # <<>>   \* "__NEXT_DATA__" in html
                      THEN _find_next_data(html, SummaryUrl) ELSE JNull
       IN  IF Raises(payload)
           THEN fetch_ret' = payload /\ fetch_pc' = "finally" /\ UNCHANGED fetch_locals
           ELSE fetch_locals' = <<payload>> /\ fetch_pc' = "tags_from_payload" /\ UNCHANGED fetch_ret
    /\ UNCHANGED <<fetch_call, own_session, session_gets, session_closes, fetch_html>>
    /\ UNCHANGED <<requestVars, deckVars, findVars, bracketVars, discVars, tagVars, locVars, walkVars, htmlVars, parseVars, svcVars>>

\* lines 391-393: tags_from_payload
SummaryTagsFromPayload ==
    /\ fetch_pc = "tags_from_payload"
    /\ fetch_locals' = Append(fetch_locals,
                              IF Truthy(fetch_locals[1])
                              THEN extract_commander_tags_with_counts_from_json(fetch_locals[1])[2]
                              ELSE <<>>)
    /\ fetch_pc' = "tags_from_html"
    /\ UNCHANGED <<fetch_call, own_session, session_gets, session_closes, fetch_html, fetch_ret>>
    /\ UNCHANGED <<requestVars, deckVars, findVars, bracketVars, discVars, tagVars, locVars, walkVars, htmlVars, parseVars, svcVars>>

\* line 394: tags_from_html
SummaryTagsFromHtml ==
    /\ fetch_pc = "tags_from_html"
    /\ fetch_locals' = Append(fetch_locals,
                              extract_commander_tags_with_counts_from_html(fetch_html[1].tag_cloud)[2])
    /\ fetch_pc' = "json_tag_names"
    /\ UNCHANGED <<fetch_call, own_session, session_gets, session_closes, fetch_html, fetch_ret>>
    /\ UNCHANGED <<requestVars, deckVars, findVars, bracketVars, discVars, tagVars, locVars, walkVars, htmlVars, parseVars, svcVars>>

\* line 395: json_tag_names
SummaryJsonTagNames ==
    /\ fetch_pc = "json_tag_names"
    /\ fetch_locals' = Append(fetch_locals,
                              IF Truthy(fetch_locals[1])
                              THEN extract_commander_tags_from_json(fetch_locals[1])[2]
                              ELSE <<>>)
    /\ fetch_pc' = "html_tag_names"
    /\ UNCHANGED <<fetch_call, own_session, session_gets, session_closes, fetch_html, fetch_ret>>
    /\ UNCHANGED <<requestVars, deckVars, findVars, bracketVars, discVars, tagVars, locVars, walkVars, htmlVars, parseVars, svcVars>>

\* line 396: html_tag_names
SummaryHtmlTagNames ==
    /\ fetch_pc = "html_tag_names"
    /\ fetch_locals' = Append(fetch_locals, extract_commander_tags_from_html(fetch_html[1].tag_cloud)[2])
    /\ fetch_pc' = "all_tags"
    /\ UNCHANGED <<fetch_call, own_session, session_gets, session_closes, fetch_html, fetch_ret>>
    /\ UNCHANGED <<requestVars, deckVars, findVars, bracketVars, discVars, tagVars, locVars, walkVars, htmlVars, parseVars, svcVars>>

\* lines 399-407: all_tags, of the locals assigned so far
AllTags(locals) ==
    LET counted == locals[2] \o locals[3]
    IN  [i \in DOMAIN counted |-> counted[i].tag] \o locals[4] \o locals[5]

\* line 411: the first 20 of the names without repetition
UniqueTags(deduplicated) == SubSeq(deduplicated, 1, Min({TagLimit, Len(deduplicated)}))

\* lines 418-426: the result
SummaryRecord(unique_tags) ==
    <<"return", [tags |-> [i \in DOMAIN unique_tags |-> [tag |-> unique_tags[i]]],
                 themes |-> unique_tags]>>

\* lines 410-426: from normalized_tags, or the exception it raised, on
SummaryEnding(normalized_tags) ==
    IF Raises(normalized_tags) THEN normalized_tags
    ELSE SummaryRecord(UniqueTags(DictFromKeys(normalized_tags[2])))

\* lines 399-426: all_tags, normalized_tags, unique_tags and the result
SummaryResult ==
    /\ fetch_pc = "all_tags"
    /\ fetch_ret' = SummaryEnding(normalize_commander_tags(AllTags(fetch_locals)))
    /\ fetch_pc' = "finally"
    /\ UNCHANGED <<fetch_call, fetch_locals, own_session, session_gets, session_closes, fetch_html>>
    /\ UNCHANGED <<requestVars, deckVars, findVars, bracketVars, discVars, tagVars, locVars, walkVars, htmlVars, parseVars, svcVars>>

\* lines 427-429: the finally clause
SummaryFinally ==
    /\ fetch_pc = "finally"
    /\ fetch_call[1] = "fetch_commander_summary"
    /\ session_closes' = IF own_session THEN session_closes + 1 ELSE session_closes
    /\ fetch_pc' = "done"
    /\ UNCHANGED <<fetch_call, fetch_locals, own_session, session_gets, fetch_html, fetch_ret>>
    /\ UNCHANGED <<requestVars, deckVars, findVars, bracketVars, discVars, tagVars, locVars, walkVars, htmlVars, parseVars, svcVars>>

\* find_average_deck_url(session, name, bracket) of services.edhrec_discovery:
\* the discovery with its source_url, or the failure with NotFound of a
\* commander without bracket pages
DiscoveryOutcomes ==
    {<<"return", [source_url |-> "https://edhrec.com/average-decks/atraxa/upgraded"]>>,
     Raise("EdhrecNotFoundError")}

\* how _request_average_deck(url, session=session) ends: with the html of the
\* page, or with one of the errors it raises
RequestOutcomes(pages) ==
    {<<"return", html>> : html \in pages}
    \cup {Raise(exc) : exc \in {"EdhrecTimeoutError", "EdhrecNetworkError", "EdhrecNotFoundError"}}

\* fetch_average_deck, from the payload to the result: <<"return", result>>
\* with the keys commander_card (<<>> for None) and deck.cards of the result,
\* or the exception raised
AverageDeck(html, url) ==
    LET payload == _find_next_data(html, url)
    IN  IF Raises(payload) THEN payload
        ELSE
        LET below == deep_find_cards(GetOr(GetOr(payload, "props", JDict(<<>>)),
                                           "pageProps", JDict(<<>>)))
            found_cards == IF below # JNull THEN below ELSE deep_find_cards(payload)
        IN  IF found_cards = JNull
            THEN EdhrecError("EdhrecParsingError", "Could not find Next.js data in deck page", url)
            ELSE
            LET merged == MergeAll(<<>>, NormalizeAll(found_cards[2]))
                IsCommander(card) == card.is_commander
                IsNotCommander(card) == ~card.is_commander
                commander_cards == SelectSeq(merged, IsCommander)
                deck_cards == SelectSeq(merged, IsNotCommander)
            IN  <<"return",
                  [ commander_card |-> IF commander_cards # <<>>
                                       THEN <<NameAndCount(commander_cards[1])>>
                                       ELSE <<>>,
                    deck_cards |-> [i \in DOMAIN deck_cards |-> NameAndCount(deck_cards[i])] ]>>

\* the deck pages: a payload with the cards below pageProps, with the cards
\* elsewhere, and without cards; a script element without text, or with text
\* that is no JSON; no script element
DeckPages ==
    {Page(element, <<>>, <<>>) :
        element \in {<<>>, << <<"empty">> >>, << <<"not json">> >>,
                     <<Entry1("props", Entry1("pageProps", Entry1("cards",
                          JList(<<Entry2("name", JStr(N_Sol), "qty", JInt(2)), JStr(N_Bo)>>))))>>,
                     <<Entry1("deck", JList(<<Entry2("name", JStr(N_Bo), "isCommander", JBool(TRUE)),
                                              JStr(N_Sol), JStr(N_sol)>>))>>,
                     <<Entry1("props", JDict(<<>>))>>,
                     <<JDict(<<>>)>>}}

\* fetch_average_deck, lines 268-272: the session made when none was given
AverageDeckEnter ==
    /\ fetch_pc = "call"
    /\ fetch_call[1] = "fetch_average_deck"
    /\ own_session' = NoSession(fetch_call[2])
    /\ fetch_pc' = "resolve"
    /\ UNCHANGED <<fetch_call, fetch_locals, session_gets, session_closes, fetch_html, fetch_ret>>
    /\ UNCHANGED <<requestVars, deckVars, findVars, bracketVars, discVars, tagVars, locVars, walkVars, htmlVars, parseVars, svcVars>>

\* lines 275-294: the url is the source_url given, or the one discovered for a
\* name and a bracket that are not blank
AverageDeckResolve ==
    /\ fetch_pc = "resolve"
    /\ fetch_call[1] = "fetch_average_deck"
    /\ LET args == fetch_call[2]
       IN  IF args.source_url # <<>>
           THEN /\ fetch_pc' = "request"
                /\ UNCHANGED <<fetch_ret, session_gets>>
           ELSE IF Strip(args.name) = <<>> \/ Strip(args.bracket) = <<>>
           THEN /\ fetch_ret' = Raise("ValueError")
                /\ fetch_pc' = "finally"
                /\ UNCHANGED session_gets
           ELSE \E discovery \in DiscoveryOutcomes :
                   /\ session_gets' = session_gets + 1
                   /\ IF Raises(discovery)
                      THEN fetch_ret' = discovery /\ fetch_pc' = "finally"
                      ELSE fetch_pc' = "request" /\ UNCHANGED fetch_ret
    /\ UNCHANGED <<fetch_call, fetch_locals, own_session, session_closes, fetch_html>>
    /\ UNCHANGED <<requestVars, deckVars, findVars, bracketVars, discVars, tagVars, locVars, walkVars, htmlVars, parseVars, svcVars>>

\* line 297: html = _request_average_deck(url, session=session)
AverageDeckRequest ==
    /\ fetch_pc = "request"
    /\ fetch_call[1] = "fetch_average_deck"
    /\ session_gets' = session_gets + 1
    /\ \E ended \in RequestOutcomes(DeckPages) :
          IF Raises(ended)
          THEN fetch_ret' = ended /\ fetch_pc' = "finally" /\ UNCHANGED fetch_html
          ELSE fetch_html' = <<ended[2]>> /\ fetch_pc' = "parse" /\ UNCHANGED fetch_ret
    /\ UNCHANGED <<fetch_call, fetch_locals, own_session, session_closes>>
    /\ UNCHANGED <<requestVars, deckVars, findVars, bracketVars, discVars, tagVars, locVars, walkVars, htmlVars, parseVars, svcVars>>

\* lines 300-352: the payload, the cards and the result
AverageDeckParse ==
    /\ fetch_pc = "parse"
    /\ fetch_call[1] = "fetch_average_deck"
    /\ fetch_ret' = AverageDeck(fetch_html[1], "https://edhrec.com/average-decks/atraxa/upgraded")
    /\ fetch_pc' = "finally"
    /\ UNCHANGED <<fetch_call, fetch_locals, own_session, session_gets, session_closes, fetch_html>>
    /\ UNCHANGED <<requestVars, deckVars, findVars, bracketVars, discVars, tagVars, locVars, walkVars, htmlVars, parseVars, svcVars>>

\* lines 354-359: the exception is logged and raised again; the finally clause
AverageDeckFinally ==
    /\ fetch_pc = "finally"
    /\ fetch_call[1] = "fetch_average_deck"
    /\ session_closes' = IF own_session THEN session_closes + 1 ELSE session_closes
    /\ fetch_pc' = "done"
    /\ UNCHANGED <<fetch_call, fetch_locals, own_session, session_gets, fetch_html, fetch_ret>>
    /\ UNCHANGED <<requestVars, deckVars, findVars, bracketVars, discVars, tagVars, locVars, walkVars, htmlVars, parseVars, svcVars>>

\* the calls of fetch_average_deck: a name, a bracket and a source_url, each
\* given, blank or None (<<>>), and a session given or none
AverageDeckCalls ==
    {<<"fetch_average_deck",
       [name |-> name, bracket |-> tier, source_url |-> source_url, session |-> session]>> :
        name \in {<<"A","t","r","a","x","a">>, <<" ">>, <<>>}, tier \in {<<"u","p","g","r","a","d","e","d">>, <<" ">>, <<>>},
        source_url \in {<<>>, <<"https://edhrec.com/average-decks/atraxa/upgraded">>},
        session \in {"None", "given"}}

\* the calls of fetch_commander_summary: a name or a blank one, a session
\* given or none
SummaryCalls ==
    {<<"fetch_commander_summary", [name |-> name, session |-> session]>> :
        name \in {<<"A","t","r","a","x","a">>, <<" ">>, <<>>}, session \in {"None", "given"}}

InitFetch ==
    /\ fetch_call \in SummaryCalls \cup AverageDeckCalls
    /\ own_session = FALSE
    /\ session_gets = 0
    /\ session_closes = 0
    /\ fetch_html = <<>>
    /\ fetch_locals = <<>>
    /\ fetch_ret = <<"none">>
    /\ fetch_pc = "call"
    /\ RequestIdle /\ DeckIdle /\ FindIdle /\ BracketIdle /\ DiscIdle /\ TagIdle /\ LocIdle /\ WalkIdle /\ HtmlIdle /\ ParseIdle /\ ServiceIdle
NextFetch ==
    \/ SummaryEnter \/ SummaryGet \/ SummaryPayload \/ SummaryTagsFromPayload
    \/ SummaryTagsFromHtml \/ SummaryJsonTagNames \/ SummaryHtmlTagNames \/ SummaryResult
    \/ SummaryFinally
    \/ AverageDeckEnter \/ AverageDeckResolve \/ AverageDeckRequest
    \/ AverageDeckParse \/ AverageDeckFinally
SpecFetch == InitFetch /\ [][NextFetch]_vars

(***************************************************************************)
(* Properties of fetch_commander_summary and fetch_average_deck (checked   *)
(* under SpecFetch)                                                        *)
(***************************************************************************)
\* the call of fn has ended and returned a result
FetchReturned(fn) == fetch_pc = "done" /\ fetch_call[1] = fn /\ fetch_ret[1] = "return"

\* the payload of the page fetched, JNull when it has none or an empty one
FetchedPayload ==
    LET html == fetch_html[1]
    IN  IF html.element # <<>> /\ Truthy(_find_next_data(html, SummaryUrl))
        THEN _find_next_data(html, SummaryUrl) ELSE JNull

\* the tags of the JSON path and of the HTML path of the page fetched: the
\* names of the records of the extractors that carry counts (counted), or the
\* names of the extractors of names
PathTags(counted) ==
    LET Names(records) == [i \in DOMAIN records |-> records[i].tag]
        html == fetch_html[1].tag_cloud
    IN  [json |-> IF FetchedPayload = JNull THEN <<>>
                  ELSE IF counted
                  THEN Names(extract_commander_tags_with_counts_from_json(FetchedPayload)[2])
                  ELSE extract_commander_tags_from_json(FetchedPayload)[2],
         html |-> IF counted
                  THEN Names(extract_commander_tags_with_counts_from_html(html)[2])
                  ELSE extract_commander_tags_from_html(html)[2]]

\* the tags of the result, as a list of names
ReturnedTags == [i \in DOMAIN fetch_ret[2].tags |-> fetch_ret[2].tags[i].tag]

\* the first n entries of seq
Take(seq, n) == SubSeq(seq, 1, Min({n, Len(seq)}))

\* C21: the tag list of fetch_commander_summary is the first 20 entries of the
\* normalized concatenation, deduplicated ignoring case in first-seen order, of
\* the tags of the JSON path followed by the tags of the HTML path (the tags of
\* a path being what its extractor of counted records, or its extractor of
\* names, gives); so a tag of one path alone appears whenever fewer than 20
\* distinct tags precede it.
C21_TagsOfBothPathsCapped ==
    FetchReturned("fetch_commander_summary") =>
        \E counted \in BOOLEAN :
            ReturnedTags =
                Take(normalize_commander_tags(PathTags(counted).json
                                                \o PathTags(counted).html)[2], TagLimit)

\* the counts the sources of the page fetched carry for the tag: those of the
\* records of the JSON path and of the HTML path whose name normalizes to it
SourceCounts(tag) ==
    LET records == (IF FetchedPayload = JNull THEN <<>>
                    ELSE extract_commander_tags_with_counts_from_json(FetchedPayload)[2])
                       \o extract_commander_tags_with_counts_from_html(fetch_html[1].tag_cloud)[2]
        Names(i) == normalize_commander_tag_name(records[i].tag)
    IN  {records[i].deck_count :
            i \in {j \in DOMAIN records :
                     /\ IsStr(Names(j))
                     /\ TagKey(Names(j)[2]) = TagKey(tag[2])
                     /\ records[j].deck_count # JNull}}

\* C22: every tag record fetch_commander_summary returns carries the deck count
\* of its source, when the source carried one (a count field of the JSON item,
\* or a number at the end of the HTML label).
C22_ReturnedTagsCarryCounts ==
    FetchReturned("fetch_commander_summary") =>
        \A i \in DOMAIN fetch_ret[2].tags :
            LET record == fetch_ret[2].tags[i]
            IN  SourceCounts(record.tag) # {} =>
                    /\ "deck_count" \in DOMAIN record
                    /\ record.deck_count \in SourceCounts(record.tag)

\* the call was given no session and went on to make one: every call of
\* fetch_average_deck without a session, and those of fetch_commander_summary
\* without a session whose name passed the check
MadeSession ==
    /\ fetch_call[2].session = "None"
    /\ fetch_call[1] = "fetch_commander_summary" => Strip(fetch_call[2].name) # <<>>

\* C29: fetch_average_deck and fetch_commander_summary close the session on
\* every way out (return, validation error, failed fetch, failed parse) exactly
\* when they made it themselves: once when the call made the session, and
\* never a session the caller gave.
C29_OwnSessionClosedOnEveryExit ==
    /\ fetch_pc = "done" => session_closes = (IF MadeSession THEN 1 ELSE 0)
    /\ (fetch_pc # "idle" /\ fetch_call[2].session = "given") => session_closes = 0
    /\ session_closes <= 1

\* a call that made its session leaves through a failed parse
C29_Witness ==
    /\ fetch_pc = "done"
    /\ MadeSession
    /\ Raises(fetch_ret)
    /\ fetch_ret[2] = "EdhrecParsingError"
    /\ session_closes = 1

(***************************************************************************)
(* deep_find_cards on objects with identity.  The heap gives each list and *)
(* dict of the argument under its identity; a child is <<"ref", id>> of a  *)
(* list or dict of the heap, or a value without lists of its own.  A list  *)
(* is <<"list", children>>, a dict <<"dict", pairs of key and child>>.     *)
(* The recursion of walk is the stack of its calls; the interpreter raises *)
(* RecursionError when the stack would pass its limit.                     *)
(***************************************************************************)
Ref(id) == <<"ref", id>>
IsRef(child) == child[1] = "ref"

\* the children of a list or dict: its entries, or its values()
Children(cell) ==
    IF cell[1] = "list" THEN cell[2] ELSE [i \in DOMAIN cell[2] |-> cell[2][i][2]]

\* the value a child stands for, as far as is_card_like looks into it: lists
\* and dicts `depth` levels down are shown empty
RECURSIVE View(_, _, _)
View(h, child, depth) ==
    IF ~IsRef(child) THEN child
    ELSE LET cell == h[child[2]]
         IN  IF cell[1] = "list"
             THEN JList(IF depth = 0 THEN <<>>
                        ELSE [i \in DOMAIN cell[2] |-> View(h, cell[2][i], depth - 1)])
             ELSE JDict(IF depth = 0 THEN <<>>
                        ELSE [i \in DOMAIN cell[2] |->
                                <<cell[2][i][1], View(h, cell[2][i][2], depth - 1)>>])

\* node and all(is_card_like(entry) for entry in node), of the list `id`
QualifiesAsCards(h, id) ==
    /\ h[id][1] = "list"
    /\ h[id][2] # <<>>
    /\ \A i \in DOMAIN h[id][2] : is_card_like(View(h, h[id][2][i], 2))

\* a walk that keeps no record of the lists it has seen
AlreadySeen_Never(id, ids) == FALSE

\* node_id in seen_ids
AlreadySeen(id, ids) == id \in ids

\* a call of walk, and the child its loop has reached (0 on entry)
Frame(id, i) == [ref |-> id, i |-> i]

\* the depth of calls the interpreter allows
RecursionLimit == 6

\* replace(seq, x): seq with its last element replaced by x; Pop(seq): without it
ReplaceTop(seq, x) == [seq EXCEPT ![Len(seq)] = x]
Pop(seq) == SubSeq(seq, 1, Len(seq) - 1)

\* walk(node) up to its loop: a list seen before returns, a list of cards is
\* recorded and returns, any other list is marked seen and looped over; a dict
\* is looped over
WalkEnter ==
    /\ walk_pc = "walking"
    /\ stack # <<>>
    /\ stack[Len(stack)].i = 0
    /\ LET id == stack[Len(stack)].ref
       IN  IF heap[id][1] = "list"
           THEN IF AlreadySeen(id, seen_ids)
                THEN /\ stack' = Pop(stack)
                     /\ UNCHANGED <<seen_ids, seen_refs>>
                ELSE IF QualifiesAsCards(heap, id)
                THEN /\ seen_ids' = seen_ids \cup {id}
                     /\ seen_refs' = Append(seen_refs, id)
                     /\ stack' = Pop(stack)
                ELSE /\ seen_ids' = seen_ids \cup {id}
                     /\ stack' = ReplaceTop(stack, Frame(id, 1))
                     /\ UNCHANGED seen_refs
           ELSE /\ stack' = ReplaceTop(stack, Frame(id, 1))
                /\ UNCHANGED <<seen_ids, seen_refs>>
    /\ UNCHANGED <<heap, flattened, walk_pc>>
    /\ UNCHANGED <<requestVars, deckVars, findVars, bracketVars, discVars, tagVars, locVars, fetchVars, htmlVars, parseVars, svcVars>>

\* one turn of `for entry in node: walk(entry)` or of `for value in
\* node.values(): walk(value)`: the call of walk on a list or dict; on any
\* other value walk returns at once; after the last child the call returns
WalkNext ==
    /\ walk_pc = "walking"
    /\ stack # <<>>
    /\ stack[Len(stack)].i > 0
    /\ LET top == stack[Len(stack)]
           children == Children(heap[top.ref])
       IN  IF top.i > Len(children) THEN stack' = Pop(stack)
           ELSE IF ~IsRef(children[top.i])
           THEN stack' = ReplaceTop(stack, Frame(top.ref, top.i + 1))
           ELSE /\ Len(stack) < RecursionLimit
                /\ stack' = Append(ReplaceTop(stack, Frame(top.ref, top.i + 1)),
                                   Frame(children[top.i][2], 0))
    /\ UNCHANGED <<heap, seen_ids, seen_refs, flattened, walk_pc>>
    /\ UNCHANGED <<requestVars, deckVars, findVars, bracketVars, discVars, tagVars, locVars, fetchVars, htmlVars, parseVars, svcVars>>

\* the call of walk that passes the limit of the interpreter
WalkOverflow ==
    /\ walk_pc = "walking"
    /\ stack # <<>>
    /\ LET top == stack[Len(stack)]
           children == Children(heap[top.ref])
       IN  /\ top.i > 0
           /\ top.i <= Len(children)
           /\ IsRef(children[top.i])
           /\ Len(stack) >= RecursionLimit
    /\ flattened' = Raise("RecursionError")
    /\ walk_pc' = "raised"
    /\ stack' = <<>>
    /\ UNCHANGED <<heap, seen_ids, seen_refs>>
    /\ UNCHANGED <<requestVars, deckVars, findVars, bracketVars, discVars, tagVars, locVars, fetchVars, htmlVars, parseVars, svcVars>>

\* the elements of the arrays recorded, in order
RECURSIVE FlattenRefs(_, _)
FlattenRefs(h, ids) ==
    IF ids = <<>> THEN <<>>
    ELSE h[ids[1]][2] \o FlattenRefs(h, Tail(ids))

\* after walk(obj): None, or the list `flattened`
WalkFinish ==
    /\ walk_pc = "walking"
    /\ stack = <<>>
    /\ flattened' = IF seen_refs = <<>> THEN JNull ELSE JList(FlattenRefs(heap, seen_refs))
    /\ walk_pc' = "returned"
    /\ UNCHANGED <<heap, stack, seen_ids, seen_refs>>
    /\ UNCHANGED <<requestVars, deckVars, findVars, bracketVars, discVars, tagVars, locVars, fetchVars, htmlVars, parseVars, svcVars>>

MaxChain == 2

\* The arguments: a chain of n lists and dicts, each holding the next and, or
\* not, before or after it, one of two arrays of cards; the last of them holds,
\* in place of the next, an array of cards, a dict, a value, or one of the n
\* again.  The list n + 1 holds two card names; the list n + 2 holds the dict
\* n + 3, a card that holds the list n + 1.  obj is the first of the chain.
ChainCell(kind, next, extra, before) ==
    LET children == IF extra = <<>> THEN <<next>>
                    ELSE IF before THEN <<extra[1], next>> ELSE <<next, extra[1]>>
        keys == <<"first", "second">>
    IN  IF kind = "list" THEN <<"list", children>>
        ELSE <<"dict", [i \in DOMAIN children |-> <<keys[i], children[i]>>]>>

RECURSIVE Chains(_, _)
Chains(k, n) ==
    LET cells == {ChainCell(kind, next, extra, before) :
                     kind \in {"list", "dict"},
                     next \in IF k < n THEN {Ref(k + 1)}
                              ELSE {Ref(id) : id \in 1..(n + 3)} \cup {JInt(3), JStr(N_Sol)},
                     extra \in {<<>>, <<Ref(n + 1)>>, <<Ref(n + 2)>>},
                     before \in BOOLEAN}
    IN  IF k > n THEN {<<>>}
        ELSE {<<cell>> \o rest : cell \in cells, rest \in Chains(k + 1, n)}

WalkHeaps(n) ==
    {chain \o << <<"list", <<JStr(N_Sol), JStr(N_Bo)>>>>,
                 <<"list", <<Ref(n + 3)>>>>,
                 <<"dict", << <<"name", JStr(N_Sol)>>, <<"printings", Ref(n + 1)>> >>>> >> :
        chain \in Chains(1, n)}

InitWalk ==
    /\ heap \in WalkHeaps(MaxChain)
    /\ stack = <<Frame(1, 0)>>
    /\ seen_ids = {}
    /\ seen_refs = <<>>
    /\ flattened = <<"none">>
    /\ walk_pc = "walking"
    /\ RequestIdle /\ DeckIdle /\ FindIdle /\ BracketIdle /\ DiscIdle /\ TagIdle /\ LocIdle /\ FetchIdle /\ HtmlIdle /\ ParseIdle /\ ServiceIdle
NextWalk == WalkEnter \/ WalkNext \/ WalkOverflow \/ WalkFinish
SpecWalk == InitWalk /\ [][NextWalk]_vars

\* the calls of walk are made one after the other without a pause
SpecWalkFair == SpecWalk /\ WF_vars(NextWalk)

(***************************************************************************)
(* Properties of deep_find_cards on objects with identity (checked under   *)
(* SpecWalk, termination under SpecWalkFair)                               *)
(***************************************************************************)
\* C23: deep_find_cards terminates on every argument, also on one that holds
\* itself, be it through an array or through objects only: every call comes
\* to return.
C23_WalkTerminates == <>(walk_pc = "returned")

\* the lists and dicts that id holds, directly
RefsOf(h, id) ==
    {Children(h[id])[i][2] : i \in {j \in DOMAIN Children(h[id]) : IsRef(Children(h[id])[j])}}

\* the dicts reached from the dict id through dicts only, in at most k steps
RECURSIVE DictsBelow(_, _, _)
DictsBelow(h, id, k) ==
    IF k = 0 THEN {}
    ELSE LET direct == {c \in RefsOf(h, id) : h[c][1] = "dict"}
         IN  direct \cup UNION {DictsBelow(h, c, k - 1) : c \in direct}

\* the call fails with RecursionError only on a dict that holds itself through
\* dicts alone
OverflowOnlyOnDictCycles ==
    walk_pc = "raised" =>
        \E id \in DOMAIN heap :
            heap[id][1] = "dict" /\ id \in DictsBelow(heap, id, Len(heap))

\* the ways down from the list or dict id, each with the list or dict it ends
\* at: a way goes from child to child (by the index of an array element, by
\* the position of the key of a dict), goes through no array of cards, and
\* comes to no list twice (`lists` are the lists it has come to)
RECURSIVE WaysFrom(_, _, _)
WaysFrom(h, id, lists) ==
    LET here == IF h[id][1] = "list" THEN lists \cup {id} ELSE lists
        children == Children(h[id])
        onward == {i \in DOMAIN children :
                      IsRef(children[i]) /\ children[i][2] \notin here}
    IN  {<< <<>>, id >>}
        \cup (IF QualifiesAsCards(h, id) THEN {}
              ELSE UNION {{<< <<i>> \o way[1], way[2] >> :
                              way \in WaysFrom(h, children[i][2], here)} : i \in onward})

\* the way p comes before the way q in depth-first order
ComesBefore(p, q) ==
    \E k \in 1..Len(p) :
        /\ k <= Len(q)
        /\ SubSeq(p, 1, k - 1) = SubSeq(q, 1, k - 1)
        /\ p[k] < q[k]

\* the first way, in depth-first order, that ends at id
FirstWayTo(ways, id) ==
    LET to == {way[1] : way \in {w \in ways : w[2] = id}}
    IN  CHOOSE p \in to : \A q \in to : q = p \/ ComesBefore(p, q)

\* C24: the list returned is the concatenation, in depth-first order of
\* discovery (array elements by index, dict values in key order), of exactly
\* the arrays of cards that can be reached without going through another array
\* of cards; the walk does not go into a recorded array, and an array reached
\* on several ways gives its elements once.
C24_ReachableCardArraysOnceInOrder ==
    walk_pc = "returned" =>
        LET ways == WaysFrom(heap, 1, {})
            reachable == {id \in {way[2] : way \in ways} : QualifiesAsCards(heap, id)}
        IN  /\ {seen_refs[i] : i \in DOMAIN seen_refs} = reachable
            /\ Len(seen_refs) = Cardinality(reachable)
            /\ \A i, j \in DOMAIN seen_refs :
                   i < j => ComesBefore(FirstWayTo(ways, seen_refs[i]),
                                        FirstWayTo(ways, seen_refs[j]))
            /\ flattened = (IF reachable = {} THEN JNull
                            ELSE JList(FlattenRefs(heap, seen_refs)))

\* the array of two card names is held by two of the chain and, through a
\* card, by the other array; both arrays are recorded
C24_Witness ==
    /\ walk_pc = "returned"
    /\ Len(seen_refs) = 2
    /\ Cardinality({id \in 1..MaxChain :
                       \E i \in DOMAIN Children(heap[id]) :
                           Children(heap[id])[i] = Ref(MaxChain + 1)}) >= 2
    /\ \E id \in 1..MaxChain :
           \E i \in DOMAIN Children(heap[id]) : Children(heap[id])[i] = Ref(MaxChain + 2)

(***************************************************************************)
(* The finder and the normalisation side by side (checked under SpecDeck)  *)
(***************************************************************************)
\* the name is_card_like accepts the object for: the nested card.name when it
\* is a string, else the first string under name, cardName, label, sortname;
\* <<>> when it accepts the object for no name
AcceptedName(entry) ==
    LET strs == {i \in DOMAIN CardLikeNameKeys : IsStr(Get(entry, CardLikeNameKeys[i]))}
    IN  IF ~IsDict(entry) \/ ~is_card_like(entry) THEN <<>>
        ELSE IF IsDict(Get(entry, "card")) /\ IsStr(Get(Get(entry, "card"), "name"))
        THEN <<Get(Get(entry, "card"), "name")[2]>>
        ELSE IF strs # {} THEN <<Get(entry, CardLikeNameKeys[Min(strs)])[2]>>
        ELSE <<>>

\* C25: _normalize_card_entry finds the name under the keys of the finder
\* (name, cardName, label, sortname, nested card.name): every object that
\* is_card_like accepts for a name under one of them that is not blank and has
\* no quantity prefix is normalized to a card of that name, and not dropped.
C25_AcceptedObjectsKeepTheirName ==
    deck_pc \in {"normalized", "merged", "built"} =>
        \A i \in DOMAIN cards :
            ( /\ AcceptedName(cards[i]) # <<>>
              /\ Strip(AcceptedName(cards[i])[1]) # <<>>
              /\ ~MatchesQuantityPrefix(Strip(AcceptedName(cards[i])[1])) ) =>
                \E j \in DOMAIN normalized :
                    normalized[j].name = Strip(AcceptedName(cards[i])[1])

(***************************************************************************)
(* EDHRECService._fetch_html (edhrec_service.py).  A request ends with a   *)
(* response, known by its status, or with an exception of the client.      *)
(* html_events holds <<"response", status>>, <<"error", exception>> and     *)
(* <<"sleep", milliseconds>>.                                              *)
(***************************************************************************)
max_retries == 3

\* the statuses a response may have, and the exceptions client.get may raise
HtmlStatuses == {200, 404, 429, 500}
ClientErrors == {"ConnectError", "ReadTimeout"}

\* raise_for_status() raises for the status
IsErrorStatus(status) == status >= 400

\* client.get raises
HtmlGetFails ==
    /\ html_pc = "get"
    /\ \E exc \in ClientErrors :
          LET sent == Append(html_events, <<"error", exc>>)
          IN  IF html_attempt = max_retries - 1
              THEN /\ html_outcome' = Raise(exc)
                   /\ html_pc' = "done"
                   /\ html_events' = sent
                   /\ UNCHANGED html_attempt
              ELSE /\ html_events' = Append(sent, <<"sleep", 500>>)
                   /\ html_attempt' = html_attempt + 1
                   /\ UNCHANGED <<html_outcome, html_pc>>
    /\ UNCHANGED <<requestVars, deckVars, findVars, bracketVars, discVars, tagVars, locVars, fetchVars, walkVars, parseVars, svcVars>>

\* client.get returns a response: a 429 before the last attempt sleeps and
\* goes on; raise_for_status raises into the except clause; else the text is
\* returned
HtmlGetResponse ==
    /\ html_pc = "get"
    /\ \E status \in HtmlStatuses :
          LET sent == Append(html_events, <<"response", status>>)
          IN  IF status = 429 /\ html_attempt < max_retries - 1
              THEN /\ html_events' = Append(sent, <<"sleep", 1000 * (html_attempt + 1)>>)
                   /\ html_attempt' = html_attempt + 1
                   /\ UNCHANGED <<html_outcome, html_pc>>
              ELSE IF IsErrorStatus(status)
              THEN IF html_attempt = max_retries - 1
                   THEN /\ html_outcome' = Raise("HTTPStatusError")
                        /\ html_pc' = "done"
                        /\ html_events' = sent
                        /\ UNCHANGED html_attempt
                   ELSE /\ html_events' = Append(sent, <<"sleep", 500>>)
                        /\ html_attempt' = html_attempt + 1
                        /\ UNCHANGED <<html_outcome, html_pc>>
              ELSE /\ html_outcome' = <<"return", status>>
                   /\ html_pc' = "done"
                   /\ html_events' = sent
                   /\ UNCHANGED html_attempt
    /\ UNCHANGED <<requestVars, deckVars, findVars, bracketVars, discVars, tagVars, locVars, fetchVars, walkVars, parseVars, svcVars>>

InitHtml ==
    /\ html_attempt = 0
    /\ html_events = <<>>
    /\ html_outcome = <<"none">>
    /\ html_pc = "get"
    /\ RequestIdle /\ DeckIdle /\ FindIdle /\ BracketIdle /\ DiscIdle /\ TagIdle /\ LocIdle /\ FetchIdle /\ WalkIdle /\ ParseIdle /\ ServiceIdle
NextHtml == HtmlGetFails \/ HtmlGetResponse
SpecHtml == InitHtml /\ [][NextHtml]_vars

(***************************************************************************)
(* Properties of _fetch_html (checked under SpecHtml)                      *)
(***************************************************************************)
\* the event is a response of status 404
IsNotFoundResponse(event) == event[1] = "response" /\ event[2] = 404

\* C27: _fetch_html never retries after a 404: nothing follows a response of
\* status 404, neither a sleep nor a request, and a 404 on the first attempt
\* makes the call fail after that one request.
C27_NotFoundNeverRetried ==
    /\ \A i \in DOMAIN html_events :
           IsNotFoundResponse(html_events[i]) =>
               /\ i = Len(html_events)
               /\ html_pc = "done"
               /\ Raises(html_outcome)
    /\ (html_events # <<>> /\ IsNotFoundResponse(html_events[1])) => Len(html_events) = 1

(***************************************************************************)
(* EDHRECService._parse_average_deck and _extract_cards_from_json          *)
(* (edhrec_service.py).  The page is known by what the pattern             *)
(* __NEXT_DATA__\s*=\s*(\{.*?\}); captures: nothing, or a text that        *)
(* json.loads reads or rejects.  A dict of cards is a sequence of          *)
(* <<name, count>> in insertion order.                                     *)
(***************************************************************************)
\* the places looked at for cards, in the order of card_sources
CardSourceKeys == <<"cards", "cardData", "items", "synergyList", "popularCards">>

\* cards[name] = count: the key keeps its place, the value is replaced
SetCard(deck_list, name, count) ==
    IF \E i \in DOMAIN deck_list : deck_list[i][1] = name
    THEN [i \in DOMAIN deck_list |-> IF deck_list[i][1] = name THEN <<name, count>> ELSE deck_list[i]]
    ELSE Append(deck_list, <<name, count>>)

\* what one item of a list source assigns: <<name, count>>, or nothing
ItemListing(item) ==
    IF ~IsDict(item) THEN <<>>
    ELSE LET first == Get(item, "name")
             name == IF Truthy(first) THEN first ELSE Get(item, "cardName")
             count == GetOr(item, "count", GetOr(item, "quantity", JInt(1)))
         IN  IF Truthy(name) THEN << <<name, count>> >> ELSE <<>>

\* what one pair of a dict source assigns
PairListing(pair) ==
    IF pair[1] # <<>> /\ (IsInt(pair[2]) \/ IsBool(pair[2]))
    THEN << <<JStr(pair[1]), pair[2]>> >>
    ELSE <<>>

RECURSIVE ListListings(_)
ListListings(items) ==
    IF items = <<>> THEN <<>>
    ELSE ItemListing(Head(items)) \o ListListings(Tail(items))

RECURSIVE DictListings(_)
DictListings(pairs) ==
    IF pairs = <<>> THEN <<>>
    ELSE PairListing(Head(pairs)) \o DictListings(Tail(pairs))

\* the assignments one source makes, in order
SourceListings(source) ==
    IF Truthy(source) /\ IsList(source) THEN ListListings(source[2])
    ELSE IF Truthy(source) /\ IsDict(source) THEN DictListings(source[2])
    ELSE <<>>

\* the assignments of the whole loop, from the k-th source on
RECURSIVE Listings(_, _)
Listings(data, k) ==
    IF k > Len(CardSourceKeys) THEN <<>>
    ELSE SourceListings(Get(data, CardSourceKeys[k])) \o Listings(data, k + 1)

RECURSIVE AssignAll(_, _)
AssignAll(deck_list, listings) ==
    IF listings = <<>> THEN deck_list
    ELSE AssignAll(SetCard(deck_list, Head(listings)[1], Head(listings)[2]), Tail(listings))

_extract_cards_from_json(data) == AssignAll(<<>>, Listings(data, 1))

RECURSIVE TotalCards(_)
TotalCards(deck_list) ==
    IF deck_list = <<>> THEN 0 ELSE Head(deck_list).quantity + TotalCards(Tail(deck_list))

\* DeckCard(name=..., quantity=...) accepts a string and an integer
IsDeckCard(pair) == IsStr(pair[1]) /\ IsInt(pair[2])

_parse_average_deck(html) ==
    LET json_data == locate_json_data(html)
    IN  IF Raises(json_data) THEN json_data
        ELSE
        LET props == GetOr(json_data, "props", JDict(<<>>))
        IN  IF ~IsDict(props) THEN Raise("AttributeError")
            ELSE
            LET page_props == GetOr(props, "pageProps", JDict(<<>>))
            IN  IF ~IsDict(page_props) THEN Raise("AttributeError")
                ELSE
                LET cards_data == _extract_cards_from_json(page_props)
                IN  IF cards_data = <<>> THEN Raise("ValueError")
                    ELSE IF \E i \in DOMAIN cards_data : ~IsDeckCard(cards_data[i])
                    THEN Raise("ValidationError")
                    ELSE
                    LET deck_list == [i \in DOMAIN cards_data |->
                                    [name |-> cards_data[i][1][2], quantity |-> cards_data[i][2][2]]]
                    IN  <<"return", [cards |-> deck_list, total_cards |-> TotalCards(deck_list)]>>

ParseAverageDeckCards ==
    /\ parse_pc = "called"
    /\ parse_ret' = _parse_average_deck(parse_html)
    /\ parse_pc' = "returned"
    /\ UNCHANGED parse_html
    /\ UNCHANGED <<requestVars, deckVars, findVars, bracketVars, discVars, tagVars, locVars, fetchVars, walkVars, htmlVars, svcVars>>

MaxListed == 2

\* the items of a list source: a card with and without a count, under either
\* name key, the same card in another case, and an item without a name
ListedItems ==
    { Entry2("name", JStr(N_Sol), "count", JInt(2)),
      Entry2("cardName", JStr(N_Sol), "quantity", JInt(3)),
      Entry1("name", JStr(N_sol)),
      Entry2("name", JStr(N_Bo), "count", JInt(1)),
      Entry1("count", JInt(4)) }

\* the sources: lists of at most n items, and two dicts of name and count
CardSources(n) ==
    {JList(items) : items \in SeqsUpTo(ListedItems, n)}
        \cup {JDict(<< <<N_Sol, JInt(5)>>, <<N_Bo, JStr(N_Count)>> >>),
              JDict(<< <<N_SOL, JInt(1)>> >>)}

\* the pages: cards under "cards" and under one more place, and the pages
\* that hold no cards
ParsePages(n) ==
    { Html(<<>>, << Entry1("props", Entry1("pageProps", JDict(<< <<"cards", first>>, <<key, second>> >>))) >>) :
         first \in CardSources(n), second \in CardSources(1),
         key \in {"cardData", "items", "synergyList", "popularCards"} }
        \cup {Html(<<>>, inline) :
                 inline \in {<<>>, << <<"not json">> >>, << Entry1("props", JList(<<>>)) >>,
                             << Entry1("props", Entry1("pageProps", JNull)) >>,
                             << Entry1("props", Entry1("pageProps", Entry1("deck", JList(<<>>)))) >>}}

InitParse ==
    /\ parse_html \in ParsePages(MaxListed)
    /\ parse_ret = <<"none">>
    /\ parse_pc = "called"
    /\ RequestIdle /\ DeckIdle /\ FindIdle /\ BracketIdle /\ DiscIdle /\ TagIdle /\ LocIdle /\ FetchIdle /\ WalkIdle /\ HtmlIdle /\ ServiceIdle
NextParse == ParseAverageDeckCards
SpecParse == InitParse /\ [][NextParse]_vars

(***************************************************************************)
(* Properties of _parse_average_deck (checked under SpecParse)             *)
(***************************************************************************)
\* the cards listed by the page, in order, as <<name, count>>
ListedCards ==
    Listings(GetOr(GetOr(parse_html.inline[1], "props", JDict(<<>>)), "pageProps", JDict(<<>>)), 1)

RECURSIVE ListedQuantity(_, _)
ListedQuantity(listings, name) ==
    IF listings = <<>> THEN 0
    ELSE (IF Lower(Head(listings)[1][2]) = Lower(name) THEN Head(listings)[2][2] ELSE 0)
             + ListedQuantity(Tail(listings), name)

\* C28: the cards of the DeckData returned hold no two names equal ignoring
\* case, and every card's quantity is the sum of the quantities the page
\* lists for it, within one source list and across the source lists.
C28_CardsMergedByNameIgnoringCase ==
    (parse_pc = "returned" /\ ~Raises(parse_ret)) =>
        LET deck_list == parse_ret[2].cards
        IN  /\ \A i, j \in DOMAIN deck_list :
                   Lower(deck_list[i].name) = Lower(deck_list[j].name) => i = j
            /\ \A i \in DOMAIN deck_list :
                   deck_list[i].quantity = ListedQuantity(ListedCards, deck_list[i].name)

(***************************************************************************)
(* EDHRECService: initialize, cleanup and the guard of the public          *)
(* operations (edhrec_service.py).  The operations are coroutines: between *)
(* two awaits of one, initialize and cleanup of another task may run.  Of  *)
(* the body of an operation the model keeps the requests it issues and how *)
(* it ends.                                                                *)
(***************************************************************************)
Operations == {"get_average_deck", "get_budget_comparison", "get_theme_data", "get_theme_suggestions"}

NotInitialized == <<"raise", "RuntimeError", "EDHREC service not initialized">>
ClientClosed == <<"raise", "RuntimeError", "Cannot send a request, as the client has been closed.">>

MaxServiceRequests == 3

\* a guard that lets every call pass
Rejects_Never(initialized) == FALSE

\* `if not self._initialized: raise RuntimeError(...)`
Rejects(initialized) == ~initialized

\* initialize(): the client is built and the flag set, or the constructor
\* raises and nothing is assigned
Initialize ==
    /\ \E built \in BOOLEAN :
          IF built
          THEN /\ client' = "open"
               /\ _initialized' = TRUE
               /\ in_service' = TRUE
               /\ lifecycle_ret' = <<"initialize", "returned">>
          ELSE /\ lifecycle_ret' = <<"initialize", "raised">>
               /\ UNCHANGED <<client, _initialized, in_service>>
    /\ UNCHANGED <<http_requests, svc_call, svc_left, svc_sent, svc_ret, svc_pc>>
    /\ UNCHANGED <<requestVars, deckVars, findVars, bracketVars, discVars, tagVars, locVars, fetchVars, walkVars, htmlVars, parseVars>>

\* cleanup(): without a client nothing is done; else aclose() closes the
\* client and the flag is reset, unless aclose() raises
Cleanup ==
    /\ IF client = "None"
       THEN /\ lifecycle_ret' = <<"cleanup", "returned">>
            /\ in_service' = FALSE
            /\ UNCHANGED <<client, _initialized>>
       ELSE \E closed \in BOOLEAN :
               /\ client' = "closed"
               /\ IF closed
                  THEN /\ _initialized' = FALSE
                       /\ in_service' = FALSE
                       /\ lifecycle_ret' = <<"cleanup", "returned">>
                  ELSE /\ lifecycle_ret' = <<"cleanup", "raised">>
                       /\ UNCHANGED <<_initialized, in_service>>
    /\ UNCHANGED <<http_requests, svc_call, svc_left, svc_sent, svc_ret, svc_pc>>
    /\ UNCHANGED <<requestVars, deckVars, findVars, bracketVars, discVars, tagVars, locVars, fetchVars, walkVars, htmlVars, parseVars>>

\* an operation is invoked: the guard
Invoke ==
    /\ svc_pc \in {"idle", "returned"}
    /\ http_requests < MaxServiceRequests
    /\ \E op \in Operations :
          /\ svc_call' = <<op, in_service, http_requests>>
          /\ IF Rejects(_initialized)
             THEN /\ svc_ret' = NotInitialized
                  /\ svc_pc' = "returned"
                  /\ svc_left' = 0
             ELSE /\ svc_ret' = <<"none">>
                  /\ svc_pc' = IF op = "get_budget_comparison" THEN "enter" ELSE "body"
                  /\ svc_left' = IF op = "get_budget_comparison" THEN 2 ELSE 0
    /\ svc_sent' = FALSE
    /\ UNCHANGED <<_initialized, client, http_requests, lifecycle_ret, in_service>>
    /\ UNCHANGED <<requestVars, deckVars, findVars, bracketVars, discVars, tagVars, locVars, fetchVars, walkVars, htmlVars, parseVars>>

\* get_budget_comparison calls get_average_deck: its guard; the exception
\* is swallowed
BudgetEnter ==
    /\ svc_pc = "enter"
    /\ svc_left > 0
    /\ IF Rejects(_initialized)
       THEN /\ svc_left' = svc_left - 1
            /\ UNCHANGED svc_pc
       ELSE /\ svc_pc' = "body"
            /\ UNCHANGED svc_left
    /\ svc_sent' = FALSE
    /\ UNCHANGED <<_initialized, client, http_requests, lifecycle_ret, in_service, svc_call, svc_ret>>
    /\ UNCHANGED <<requestVars, deckVars, findVars, bracketVars, discVars, tagVars, locVars, fetchVars, walkVars, htmlVars, parseVars>>

\* the end of the operation in the body, with the ending given
EndBody(ending) ==
    IF svc_call[1] = "get_budget_comparison"
    THEN /\ svc_left' = svc_left - 1
         /\ svc_pc' = "enter"
         /\ UNCHANGED svc_ret
    ELSE /\ svc_ret' = ending
         /\ svc_pc' = "returned"
         /\ UNCHANGED svc_left

\* self.client.get(...): a closed client raises before anything is sent
ServiceRequest ==
    /\ svc_pc = "body"
    /\ IF client = "closed"
       THEN /\ EndBody(ClientClosed)
            /\ UNCHANGED <<http_requests, svc_sent>>
       ELSE /\ http_requests < MaxServiceRequests
            /\ http_requests' = http_requests + 1
            /\ svc_sent' = TRUE
            /\ UNCHANGED <<svc_left, svc_ret, svc_pc>>
    /\ UNCHANGED <<_initialized, client, lifecycle_ret, in_service, svc_call>>
    /\ UNCHANGED <<requestVars, deckVars, findVars, bracketVars, discVars, tagVars, locVars, fetchVars, walkVars, htmlVars, parseVars>>

\* the operation ends after its requests, with a result or an exception
ServiceEnd ==
    /\ svc_pc = "body"
    /\ svc_sent
    /\ \E ending \in {<<"return">>, Raise("ValueError"), Raise("HTTPStatusError")} :
          EndBody(ending)
    /\ UNCHANGED <<_initialized, client, http_requests, lifecycle_ret, in_service, svc_call, svc_sent>>
    /\ UNCHANGED <<requestVars, deckVars, findVars, bracketVars, discVars, tagVars, locVars, fetchVars, walkVars, htmlVars, parseVars>>

\* get_budget_comparison returns after both calls
BudgetReturn ==
    /\ svc_pc = "enter"
    /\ svc_left = 0
    /\ svc_ret' = <<"return">>
    /\ svc_pc' = "returned"
    /\ UNCHANGED <<_initialized, client, http_requests, lifecycle_ret, in_service, svc_call, svc_left, svc_sent>>
    /\ UNCHANGED <<requestVars, deckVars, findVars, bracketVars, discVars, tagVars, locVars, fetchVars, walkVars, htmlVars, parseVars>>

InitService ==
    /\ _initialized = FALSE
    /\ client = "None"
    /\ http_requests = 0
    /\ lifecycle_ret = <<"none">>
    /\ in_service = FALSE
    /\ svc_call = <<"none">>
    /\ svc_left = 0
    /\ svc_sent = FALSE
    /\ svc_ret = <<"none">>
    /\ svc_pc = "idle"
    /\ RequestIdle /\ DeckIdle /\ FindIdle /\ BracketIdle /\ DiscIdle /\ TagIdle /\ LocIdle /\ FetchIdle /\ WalkIdle /\ HtmlIdle /\ ParseIdle
NextService ==
    \/ Initialize
    \/ Cleanup
    \/ Invoke
    \/ BudgetEnter
    \/ ServiceRequest
    \/ ServiceEnd
    \/ BudgetReturn
SpecService == InitService /\ [][NextService]_vars

(***************************************************************************)
(* Properties of the guard (checked under SpecService)                     *)
(***************************************************************************)
\* C30: an operation invoked while the service is not initialized (no
\* initialize has completed, or a cleanup has completed since the last one)
\* fails with the RuntimeError of the guard without issuing a request, and an
\* operation invoked while it is initialized is not rejected by the guard.
C30_GuardFollowsLifecycle ==
    svc_call # <<"none">> =>
        IF svc_call[2]
        THEN svc_ret # NotInitialized
        ELSE /\ svc_pc = "returned"
             /\ svc_ret = NotInitialized
             /\ http_requests = svc_call[3]

\* an operation ran and issued a request after an initialize, a cleanup
\* followed, and the next operation was rejected
C30_Witness ==
    /\ svc_pc = "returned"
    /\ svc_ret = NotInitialized
    /\ ~svc_call[2]
    /\ lifecycle_ret = <<"cleanup", "returned">>
    /\ client = "closed"
    /\ http_requests > 0
    /\ http_requests = svc_call[3]

====
